---------------------------- MODULE Spec2Model ----------------------------
(***************************************************************************)
(* A model of envii: the crypto envelope (cli core/crypto), the filesystem *)
(* scanner (cli core/scanner), the restore command (cli commands/restore)  *)
(* and the API server (api routes/backup, routes/admin, db/schema,        *)
(* db/client).  Each part has its own specification over the shared       *)
(* variables; the variables of the other parts stay at their idle value.  *)
(***************************************************************************)
EXTENDS Integers, Sequences, FiniteSets, TLC

VARIABLES
    cPc,        \* crypto: "idle" | "sealed" | "tampered" | "truncated" | "foreign" | "opened"
    cPlain,     \* crypto: the plaintext handed to encryptBackup (UTF-16 code units)
    cKey,       \* crypto: the key handed to encryptBackup (32 bytes)
    cSalt,      \* crypto: the salt handed to encryptBackup (base64 text)
    cEnvelope,  \* crypto: the envelope as produced by encryptBackup (base64 text)
    cBlob,      \* crypto: the envelope as stored, possibly altered in one byte
    cTamperPos, \* crypto: the byte position altered in cBlob, 0 when none
    cOpenKey,   \* crypto: the key handed to decryptBackup
    cResult,    \* crypto: what decryptBackup returned or threw
    ePc,        \* isEnvFile: "idle" | "done"
    eName,      \* isEnvFile: the filename tested (a sequence of characters)
    eResult,    \* isEnvFile: the value returned
    sPc,        \* scanDirectory: "start" | "scanning" | "done"
    sTree,      \* scanDirectory: the files below rootPath (paths relative to it)
    sStack,     \* scanDirectory: the active for-loops, innermost last
    sProjects,  \* scanDirectory: projects, in the order pushed
    sUnreadable, \* scanDirectory: for each project pushed, the reads inside it that threw
    rPc,        \* restoreCommand: where it is
    rForce,     \* restoreCommand: options.force
    rFetches,   \* restoreCommand: calls of api.getLatestBackup so far
    rScans,     \* restoreCommand: calls of scanDirectory so far
    rFailure,   \* restoreCommand: what threw or came back empty before the matching, or "none"
    rBlob,      \* restoreCommand: blob.projects of the decoded backup document
    rLocal,     \* restoreCommand: localProjects, the result of scanDirectory(cwd)
    rMatched,   \* restoreCommand: matched, as <<index into rBlob, localPath>> records
    rUnmatched, \* restoreCommand: unmatched, as indexes into rBlob
    rNext,      \* restoreCommand: position of the two nested loops, as an index into the files to restore
    rFs0,       \* restoreCommand: the files on disk when the command started
    rFs,        \* restoreCommand: the files on disk
    rStats,     \* restoreCommand: stats
    rLog,       \* restoreCommand: the logger.restoreItem calls, with what each file met
    rExit,      \* restoreCommand: "running" | "returned" | "exit1"
    rFirst,     \* restoreCommand: what an earlier run with the same inputs left, if there was one
    kSeals,     \* encryptBackup: the calls so far, each with what randomBytes returned and the envelope
    aPc,        \* API server: "off" | "serving"
    aServed,    \* API server: the number of requests answered
    aAdminKey,  \* API server: process.env.ADMIN_API_KEY, or NoEnv
    aClock,     \* database: the time NOW() last returned
    aVaults,    \* database: table vaults
    aBackups,   \* database: table backups, in insertion order
    aEvents,    \* database: table events, in insertion order
    aRequest,   \* API server: the request handled last
    aQueries,   \* API server: the database calls the last request made
    aResponse,  \* API server: the response to it
    aCaught,    \* API server: what the handler's catch block caught, or "none"
    aPosted,    \* API server: the POST /backup requests answered 201, in order
    dPool,      \* db/client.ts: the module variable pool, NoPool for null or the number of a pool
    dPools,     \* db/client.ts: the pg.Pool objects made so far, each with how its connection test
                \* went and whether end() was called on it
    dCalls,     \* db/client.ts: the initDb and closeDb calls that wait at their await
    dGot        \* db/client.ts: what the last getDb call did, with the state of the pool it returned

cryptoVars == <<cPc, cPlain, cKey, cSalt, cEnvelope, cBlob, cTamperPos, cOpenKey, cResult>>

envVars == <<ePc, eName, eResult>>

scanVars == <<sPc, sTree, sStack, sProjects, sUnreadable>>

restoreVars == <<rPc, rForce, rFetches, rScans, rFailure, rBlob, rLocal, rMatched, rUnmatched, rNext,
                 rFs0, rFs, rStats, rLog, rExit, rFirst>>

sealVars == <<kSeals>>

apiVars == <<aPc, aServed, aAdminKey, aClock, aVaults, aBackups, aEvents, aRequest, aQueries, aResponse,
            aCaught, aPosted>>

clientVars == <<dPool, dPools, dCalls, dGot>>

vars == <<cryptoVars, envVars, scanVars, restoreVars, sealVars, apiVars, clientVars>>

-----------------------------------------------------------------------------
(* Sequence helpers *)

SubArray(s, from, to) == [i \in 1..(IF to >= from THEN to - from + 1 ELSE 0) |-> s[from + i - 1]]

RECURSIVE SumSeq(_)
SumSeq(s) == IF s = <<>> THEN 0 ELSE Head(s) + SumSeq(Tail(s))

NoValue == <<"none">>

-----------------------------------------------------------------------------
(* crypto.ts: constants *)

IV_LENGTH == 12
AUTH_TAG_LENGTH == 16
KEY_LENGTH == 32
SALT_LENGTH == 32

-----------------------------------------------------------------------------
(* Buffer <-> base64 text.  A base64 character is its 6-bit value, 0..63;   *)
(* B64PAD is '='.                                                           *)

B64PAD == 64

\* buf.toString("base64")
base64Encode(bytes) ==
    LET n == Len(bytes)
        groups == (n + 2) \div 3
        at(k) == IF k <= n THEN bytes[k] ELSE 0
    IN  [i \in 1..(4 * groups) |->
            LET g == (i - 1) \div 4
                pos == (i - 1) % 4
                b0 == at(3 * g + 1)
                b1 == at(3 * g + 2)
                b2 == at(3 * g + 3)
            IN  CASE pos = 0 -> b0 \div 4
                  [] pos = 1 -> (b0 % 4) * 16 + (b1 \div 16)
                  [] pos = 2 -> IF 3 * g + 2 > n THEN B64PAD
                                ELSE (b1 % 16) * 4 + (b2 \div 64)
                  [] OTHER   -> IF 3 * g + 3 > n THEN B64PAD ELSE b2 % 64]

\* Buffer.from(text, "base64"): decoding stops at the first '='
base64Decode(text) ==
    LET pads == {i \in 1..Len(text) : text[i] = B64PAD}
        n == IF pads = {} THEN Len(text)
             ELSE (CHOOSE i \in pads : \A j \in pads : i <= j) - 1
        c(k) == text[k]
    IN  [i \in 1..((n * 6) \div 8) |->
            LET bit == 8 * (i - 1)
                s == (bit \div 6) + 1
                r == bit % 6
            IN  CASE r = 0 -> c(s) * 4 + (c(s + 1) \div 16)
                  [] r = 2 -> (c(s) % 16) * 16 + (c(s + 1) \div 4)
                  [] OTHER -> (c(s) % 4) * 64 + c(s + 1)]

-----------------------------------------------------------------------------
(* string <-> UTF-8.  A string is a sequence of UTF-16 code units.          *)

IsHighSurrogate(u) == u >= 55296 /\ u <= 56319
IsLowSurrogate(u) == u >= 56320 /\ u <= 57343
REPLACEMENT == <<239, 191, 189>>

\* Buffer.from(data, "utf-8"): an unpaired surrogate is written as U+FFFD
RECURSIVE utf8Encode(_)
utf8Encode(str) ==
    IF str = <<>> THEN <<>>
    ELSE LET u == Head(str)
         IN  IF u < 128 THEN <<u>> \o utf8Encode(Tail(str))
             ELSE IF u < 2048
                  THEN <<192 + (u \div 64), 128 + (u % 64)>> \o utf8Encode(Tail(str))
             ELSE IF IsHighSurrogate(u) /\ Len(str) >= 2 /\ IsLowSurrogate(str[2])
                  THEN LET cp == 65536 + (u - 55296) * 1024 + (str[2] - 56320)
                       IN  <<240 + (cp \div 262144), 128 + ((cp \div 4096) % 64),
                             128 + ((cp \div 64) % 64), 128 + (cp % 64)>>
                           \o utf8Encode(Tail(Tail(str)))
             ELSE IF IsHighSurrogate(u) \/ IsLowSurrogate(u)
                  THEN REPLACEMENT \o utf8Encode(Tail(str))
             ELSE <<224 + (u \div 4096), 128 + ((u \div 64) % 64), 128 + (u % 64)>>
                  \o utf8Encode(Tail(str))

IsCont(b) == b >= 128 /\ b <= 191

\* buf.toString("utf-8"): an ill-formed byte decodes to U+FFFD
RECURSIVE utf8Decode(_)
utf8Decode(bs) ==
    IF bs = <<>> THEN <<>>
    ELSE LET b == Head(bs)
             n == Len(bs)
             cp2 == (b - 192) * 64 + (bs[2] - 128)
             cp3 == (b - 224) * 4096 + (bs[2] - 128) * 64 + (bs[3] - 128)
             cp4 == (b - 240) * 262144 + (bs[2] - 128) * 4096
                    + (bs[3] - 128) * 64 + (bs[4] - 128)
         IN  IF b < 128 THEN <<b>> \o utf8Decode(Tail(bs))
             ELSE IF b >= 194 /\ b <= 223 /\ n >= 2 /\ IsCont(bs[2])
                  THEN <<cp2>> \o utf8Decode(SubArray(bs, 3, n))
             ELSE IF b >= 224 /\ b <= 239 /\ n >= 3 /\ IsCont(bs[2]) /\ IsCont(bs[3])
                     /\ cp3 >= 2048 /\ ~(cp3 >= 55296 /\ cp3 <= 57343)
                  THEN <<cp3>> \o utf8Decode(SubArray(bs, 4, n))
             ELSE IF b >= 240 /\ b <= 244 /\ n >= 4 /\ IsCont(bs[2]) /\ IsCont(bs[3])
                     /\ IsCont(bs[4]) /\ cp4 >= 65536 /\ cp4 <= 1114111
                  THEN <<55296 + ((cp4 - 65536) \div 1024), 56320 + ((cp4 - 65536) % 1024)>>
                       \o utf8Decode(SubArray(bs, 5, n))
             ELSE <<65533>> \o utf8Decode(Tail(bs))

-----------------------------------------------------------------------------
(* zlib gzip / gunzip, abstracted: a two-byte magic header, the data as     *)
(* (run length, byte) pairs, and a trailer of a checksum and the length.    *)
(* gunzip rejects what is not of that form.                                 *)

GZIP_MAGIC == <<31, 139>>

RECURSIVE RunLength(_, _)
RunLength(bytes, i) ==
    IF i > Len(bytes) \/ bytes[i] # bytes[1] \/ i > 255 THEN i - 1
    ELSE RunLength(bytes, i + 1)

RECURSIVE Deflate(_)
Deflate(bytes) ==
    IF bytes = <<>> THEN <<>>
    ELSE LET r == RunLength(bytes, 1)
         IN  <<r, bytes[1]>> \o Deflate(SubArray(bytes, r + 1, Len(bytes)))

RECURSIVE Inflate(_)
Inflate(body) ==
    IF body = <<>> THEN <<>>
    ELSE [i \in 1..body[1] |-> body[2]] \o Inflate(Tail(Tail(body)))

RECURSIVE WellFormedBody(_)
WellFormedBody(body) ==
    \/ body = <<>>
    \/ /\ Len(body) >= 2
       /\ body[1] >= 1
       /\ WellFormedBody(Tail(Tail(body)))

Crc(bytes) == SumSeq(bytes) % 256

gzip(bytes) == GZIP_MAGIC \o Deflate(bytes) \o <<Crc(bytes), Len(bytes) % 256>>

gunzip(data) ==
    LET n == Len(data)
        body == SubArray(data, 3, n - 2)
    IN  IF n < 4 \/ SubArray(data, 1, 2) # GZIP_MAGIC \/ ~WellFormedBody(body)
        THEN [ok |-> FALSE, value |-> NoValue]
        ELSE LET out == Inflate(body)
             IN  IF Crc(out) # data[n - 1] \/ Len(out) % 256 # data[n]
                 THEN [ok |-> FALSE, value |-> NoValue]
                 ELSE [ok |-> TRUE, value |-> out]

\* compress(data): gzip(Buffer.from(data, "utf-8"))
compress(data) == gzip(utf8Encode(data))

\* decompress(data): (await gunzip(data)).toString("utf-8"); a gunzip error is thrown
decompress(data) ==
    LET r == gunzip(data)
    IN  IF r.ok THEN [ok |-> TRUE, value |-> utf8Decode(r.value), error |-> "none"]
        ELSE [ok |-> FALSE, value |-> NoValue, error |-> "gunzip"]

-----------------------------------------------------------------------------
(* aes-256-gcm of node:crypto, abstracted: a counter-mode stream cipher     *)
(* (byte-wise addition of a key stream of key and nonce) and a polynomial   *)
(* authenticator over the nonce, the ciphertext and its length, evaluated   *)
(* at a key-derived point modulo a prime and masked with key bytes.  As in  *)
(* GCM, altering one byte of nonce, ciphertext or tag alters the expected   *)
(* or the presented tag.                                                    *)

MAC_PRIME == 65521

KeyStream(key, iv, i) ==
    (key[((i - 1) % KEY_LENGTH) + 1] + iv[((i - 1) % IV_LENGTH) + 1] + i) % 256

HashPoint(key) == 1 + (SumSeq(key) % (MAC_PRIME - 1))

RECURSIVE Horner(_, _)
Horner(xs, h) ==
    IF xs = <<>> THEN 0 ELSE ((Head(xs) + Horner(Tail(xs), h)) * h) % MAC_PRIME

AuthTag(key, iv, ciphertext) ==
    LET s == Horner(iv \o ciphertext \o <<Len(ciphertext)>>, HashPoint(key))
    IN  [j \in 1..AUTH_TAG_LENGTH |->
            CASE j = 1 -> ((s \div 256) + key[1]) % 256
              [] j = 2 -> ((s % 256) + key[2]) % 256
              [] OTHER -> (key[j] + iv[((j - 1) % IV_LENGTH) + 1]) % 256]

CipherUpdate(data, key, iv) ==
    [i \in 1..Len(data) |-> (data[i] + KeyStream(key, iv, i)) % 256]

DecipherUpdate(ciphertext, key, iv) ==
    [i \in 1..Len(ciphertext) |-> (ciphertext[i] + 256 - KeyStream(key, iv, i)) % 256]

-----------------------------------------------------------------------------
(* crypto.ts: encrypt, decrypt, encryptBackup, extractSaltFromBackup,       *)
(* decryptBackup.  The nonce that encrypt draws from crypto.randomBytes is  *)
(* the parameter iv.                                                        *)

\* encrypt with a nonce computed from the key and the data instead of drawn
EncryptDerivedNonce(data, key, iv) ==
    LET derived == [i \in 1..IV_LENGTH |-> (key[i] + Len(data)) % 256]
        encrypted == CipherUpdate(data, key, derived)
        authTag == AuthTag(key, derived, encrypted)
    IN  derived \o encrypted \o authTag

\* Format: IV + ciphertext + authTag
encrypt(data, key, iv) ==
    LET encrypted == CipherUpdate(data, key, iv)
        authTag == AuthTag(key, iv, encrypted)
    IN  iv \o encrypted \o authTag

\* decrypt without the tag check of decipher.final()
DecryptUnverified(encryptedData, key) ==
    IF Len(encryptedData) < IV_LENGTH + AUTH_TAG_LENGTH
    THEN [ok |-> FALSE, value |-> NoValue, error |-> "too short"]
    ELSE LET n == Len(encryptedData)
             iv == SubArray(encryptedData, 1, IV_LENGTH)
             ciphertext == SubArray(encryptedData, IV_LENGTH + 1, n - AUTH_TAG_LENGTH)
         IN  [ok |-> TRUE, value |-> DecipherUpdate(ciphertext, key, iv), error |-> "none"]

decrypt(encryptedData, key) ==
    IF Len(encryptedData) < IV_LENGTH + AUTH_TAG_LENGTH
    THEN [ok |-> FALSE, value |-> NoValue, error |-> "too short"]
    ELSE LET n == Len(encryptedData)
             iv == SubArray(encryptedData, 1, IV_LENGTH)
             authTag == SubArray(encryptedData, n - AUTH_TAG_LENGTH + 1, n)
             ciphertext == SubArray(encryptedData, IV_LENGTH + 1, n - AUTH_TAG_LENGTH)
         IN  IF AuthTag(key, iv, ciphertext) # authTag
             THEN [ok |-> FALSE, value |-> NoValue, error |-> "auth"]
             ELSE [ok |-> TRUE, value |-> DecipherUpdate(ciphertext, key, iv),
                   error |-> "none"]

encryptBackup(data, key, salt, iv) ==
    LET compressed == compress(data)
        encrypted == encrypt(compressed, key, iv)
        saltBuffer == base64Decode(salt)
        withSalt == saltBuffer \o encrypted
    IN  base64Encode(withSalt)

extractSaltFromBackup(encryptedBase64) ==
    LET data == base64Decode(encryptedBase64)
        saltBuffer == SubArray(data, 1, IF Len(data) < SALT_LENGTH THEN Len(data) ELSE SALT_LENGTH)
    IN  base64Encode(saltBuffer)

\* decryptBackup skipping IV_LENGTH bytes instead of SALT_LENGTH
DecryptBackupSkipIv(encryptedBase64, key) ==
    LET data == base64Decode(encryptedBase64)
        encrypted == SubArray(data, IV_LENGTH + 1, Len(data))
        decrypted == decrypt(encrypted, key)
    IN  IF decrypted.ok THEN decompress(decrypted.value) ELSE decrypted

decryptBackup(encryptedBase64, key) ==
    LET data == base64Decode(encryptedBase64)
        encrypted == SubArray(data, SALT_LENGTH + 1, Len(data))
        decrypted == decrypt(encrypted, key)
    IN  IF decrypted.ok THEN decompress(decrypted.value) ELSE decrypted

-----------------------------------------------------------------------------
(* The crypto envelope as a state machine: seal once, the stored envelope   *)
(* may be altered in one byte, open once.                                   *)

MaxPlainLen == 2

\* 'A', 'e' acute, the euro sign, and the two halves of a surrogate pair
PlainAlphabet == {65, 233, 8364, 55357, 56832}

\* "{}", the one JSON text among the plaintexts
EmptyObjectText == <<123, 125>>

Plaintexts == UNION {[1..n -> PlainAlphabet] : n \in 0..MaxPlainLen} \cup {EmptyObjectText}

Keys == {[i \in 1..KEY_LENGTH |-> i], [i \in 1..KEY_LENGTH |-> (7 * i + 3) % 256]}

\* generateSalt(): crypto.randomBytes(SALT_LENGTH).toString("base64")
generateSalt(random) == base64Encode(random)

Salts == {generateSalt([i \in 1..SALT_LENGTH |-> 255 - i]),
          generateSalt([i \in 1..SALT_LENGTH |-> (3 * i) % 256])}

\* what crypto.randomBytes(IV_LENGTH) may return
IVs == {[i \in 1..IV_LENGTH |-> (5 * i) % 256], [i \in 1..IV_LENGTH |-> 200 + i]}

TamperDeltas == {1, 255}

\* a string without unpaired surrogates
WellFormed(str) ==
    \A i \in 1..Len(str) :
        /\ IsHighSurrogate(str[i]) => (i < Len(str) /\ IsLowSurrogate(str[i + 1]))
        /\ IsLowSurrogate(str[i]) => (i > 1 /\ IsHighSurrogate(str[i - 1]))

NoResult == [ok |-> FALSE, value |-> NoValue, error |-> "not called"]

CryptoIdle ==
    /\ cPc = "off"
    /\ cPlain = <<>>
    /\ cKey = <<>>
    /\ cSalt = <<>>
    /\ cEnvelope = <<>>
    /\ cBlob = <<>>
    /\ cTamperPos = 0
    /\ cOpenKey = <<>>
    /\ cResult = NoResult

EnvIdle ==
    /\ ePc = "off"
    /\ eName = <<>>
    /\ eResult = FALSE

ScanIdle ==
    /\ sPc = "off"
    /\ sTree = {}
    /\ sStack = <<>>
    /\ sProjects = <<>>
    /\ sUnreadable = <<>>

NoFirstRun == [done |-> FALSE, fs |-> <<>>, failed |-> 0]

RestoreIdle ==
    /\ rPc = "off"
    /\ rForce = FALSE
    /\ rFetches = 0
    /\ rScans = 0
    /\ rFailure = "none"
    /\ rBlob = <<>>
    /\ rLocal = <<>>
    /\ rMatched = <<>>
    /\ rUnmatched = <<>>
    /\ rNext = 0
    /\ rFs0 = <<>>
    /\ rFs = <<>>
    /\ rStats = [restored |-> 0, skipped |-> 0, failed |-> 0]
    /\ rLog = <<>>
    /\ rExit = "running"
    /\ rFirst = NoFirstRun

NoRequest == [route |-> "none"]
NoResponse == [status |-> 0]
NoEnv == <<"unset">>

SealIdle == kSeals = <<>>

\* let pool: pg.Pool | null = null
NoPool == 0

NoCall == [called |-> FALSE]

ClientIdle ==
    /\ dPool = NoPool
    /\ dPools = <<>>
    /\ dCalls = <<>>
    /\ dGot = NoCall

ApiIdle ==
    /\ aPc = "off"
    /\ aServed = 0
    /\ aAdminKey = NoEnv
    /\ aClock = 0
    /\ aVaults = {}
    /\ aBackups = <<>>
    /\ aEvents = <<>>
    /\ aRequest = NoRequest
    /\ aQueries = <<>>
    /\ aResponse = NoResponse
    /\ aCaught = "none"
    /\ aPosted = <<>>
    /\ ClientIdle

CryptoInit ==
    /\ EnvIdle
    /\ ScanIdle
    /\ RestoreIdle
    /\ SealIdle
    /\ ApiIdle
    /\ cPc = "idle"
    /\ cPlain \in Plaintexts
    /\ cKey \in Keys
    /\ cSalt \in Salts
    /\ cEnvelope = <<>>
    /\ cBlob = <<>>
    /\ cTamperPos = 0
    /\ cOpenKey = <<>>
    /\ cResult = NoResult

EncryptBackupCall ==
    /\ cPc = "idle"
    /\ \E iv \in IVs :
        /\ cEnvelope' = encryptBackup(cPlain, cKey, cSalt, iv)
        /\ cBlob' = cEnvelope'
    /\ cPc' = "sealed"
    /\ UNCHANGED <<cPlain, cKey, cSalt, cTamperPos, cOpenKey, cResult>>
    /\ UNCHANGED <<envVars, scanVars, restoreVars, sealVars, apiVars, clientVars>>

\* an envelope that encryptBackup did not make comes from the server: the bytes
\* under the key are not gzip data
ForeignEnvelope ==
    /\ cPc = "idle"
    /\ \E iv \in IVs :
        cBlob' = base64Encode(base64Decode(cSalt) \o encrypt(utf8Encode(cPlain), cKey, iv))
    /\ cPc' = "foreign"
    /\ UNCHANGED <<cPlain, cKey, cSalt, cEnvelope, cTamperPos, cOpenKey, cResult>>
    /\ UNCHANGED <<envVars, scanVars, restoreVars, sealVars, apiVars, clientVars>>

\* the lengths an envelope of len bytes is cut to: nothing; the salt alone; one byte
\* less than salt, IV and tag; salt, IV and tag; all but the last byte
TruncatedLengths(len) ==
    {n \in {0, SALT_LENGTH, SALT_LENGTH + IV_LENGTH + AUTH_TAG_LENGTH - 1,
            SALT_LENGTH + IV_LENGTH + AUTH_TAG_LENGTH, len - 1} : n < len}

\* the stored envelope loses bytes at its end
TruncateEnvelope ==
    /\ cPc = "sealed"
    /\ LET data == base64Decode(cBlob)
       IN  \E n \in TruncatedLengths(Len(data)) :
            cBlob' = base64Encode(SubArray(data, 1, n))
    /\ cPc' = "truncated"
    /\ UNCHANGED <<cPlain, cKey, cSalt, cEnvelope, cTamperPos, cOpenKey, cResult>>
    /\ UNCHANGED <<envVars, scanVars, restoreVars, sealVars, apiVars, clientVars>>

\* the stored envelope is altered in one byte
TamperByte ==
    /\ cPc = "sealed"
    /\ LET data == base64Decode(cBlob)
       IN  \E pos \in 1..Len(data), delta \in TamperDeltas :
            /\ cBlob' = base64Encode([data EXCEPT ![pos] = (data[pos] + delta) % 256])
            /\ cTamperPos' = pos
    /\ cPc' = "tampered"
    /\ UNCHANGED <<cPlain, cKey, cSalt, cEnvelope, cOpenKey, cResult>>
    /\ UNCHANGED <<envVars, scanVars, restoreVars, sealVars, apiVars, clientVars>>

DecryptBackupCall ==
    /\ cPc \in {"sealed", "tampered", "truncated", "foreign"}
    /\ \E key \in Keys :
        /\ cOpenKey' = key
        /\ cResult' = decryptBackup(cBlob, key)
    /\ cPc' = "opened"
    /\ UNCHANGED <<cPlain, cKey, cSalt, cEnvelope, cBlob, cTamperPos>>
    /\ UNCHANGED <<envVars, scanVars, restoreVars, sealVars, apiVars, clientVars>>

CryptoNext ==
    \/ EncryptBackupCall
    \/ ForeignEnvelope
    \/ TruncateEnvelope
    \/ TamperByte
    \/ DecryptBackupCall

SpecCrypto == CryptoInit /\ [][CryptoNext]_vars

-----------------------------------------------------------------------------
(* commands/restore.ts: the inner try block of restoreCommand, which calls  *)
(* decryptBackup and JSON.parse, and its catch block                          *)

\* JSON.parse: of the model's plaintexts only "{}" is a JSON text; every other one
\* makes it throw a SyntaxError
JSONparse(text) ==
    IF text = EmptyObjectText
    THEN [ok |-> TRUE, error |-> "none"]
    ELSE [ok |-> FALSE, error |-> "SyntaxError"]

DecryptionFailed ==
    [exit |-> 1, spinner |-> "Decryption failed",
     message |-> "Could not decrypt the backup. Wrong recovery phrase?"]

\* a catch block that reports the error it caught, as the outer catch does
InnerCatchReportsError(error) ==
    [exit |-> 1, spinner |-> "Decryption failed", message |-> error]

\* catch (error) { decryptSpinner.fail(..); logger.error(..); process.exit(1) }
InnerCatch(error) == DecryptionFailed

\* the try block from where decryptBackup has returned or thrown: JSON.parse, and
\* the catch block for what either threw
afterDecryptBackup(decrypted) ==
    IF ~decrypted.ok THEN InnerCatch(decrypted.error)
    ELSE IF ~JSONparse(decrypted.value).ok
         THEN InnerCatch(JSONparse(decrypted.value).error)
         ELSE [exit |-> 0, spinner |-> "Decrypted successfully", message |-> "none"]

\* try { decrypted = await decryptBackup(backup.blob, key); blob = JSON.parse(decrypted) }
restoreDecrypt(blob, key) == afterDecryptBackup(decryptBackup(blob, key))

-----------------------------------------------------------------------------
(* Claims about the crypto envelope (checked under SpecCrypto)              *)

Opened == cPc = "opened"
OpenedUntampered == Opened /\ cBlob = cEnvelope /\ cOpenKey = cKey
OpenedTampered == Opened /\ cTamperPos # 0 /\ cOpenKey = cKey

\* C1 as stated: for every plaintext string p, key and salt,
\* decryptBackup(encryptBackup(p, key, salt), key) returns exactly p.
C1_RoundTripEveryString ==
    OpenedUntampered => (cResult.ok /\ cResult.value = cPlain)

\* C1 amended: for every plaintext string p without unpaired surrogates, every key
\* and every salt, decryptBackup(encryptBackup(p, key, salt), key) returns exactly p.
C1_RoundTripWellFormed ==
    (OpenedUntampered /\ WellFormed(cPlain)) => (cResult.ok /\ cResult.value = cPlain)

\* C1 witness: a two-unit well-formed plaintext (a surrogate pair included) came back.
C1_Witness ==
    /\ OpenedUntampered
    /\ WellFormed(cPlain)
    /\ Len(cPlain) = 2
    /\ \E i \in 1..Len(cPlain) : cPlain[i] > 127
    /\ cResult.ok
    /\ cResult.value = cPlain

\* C2 as stated: changing any one byte of the envelope (salt, nonce, ciphertext
\* or tag region) makes decryptBackup with the original key fail.
C2_TamperAnyByteFails ==
    OpenedTampered => ~cResult.ok

\* C2 amended: changing one byte of the nonce, ciphertext or tag region makes
\* decryptBackup with the original key fail; changing one byte of the salt region
\* is not detected by decryptBackup, which skips the salt, and returns what the
\* unaltered envelope returns; no altered envelope yields any other plaintext.
C2_TamperDetectedBeyondSalt ==
    OpenedTampered =>
        /\ cTamperPos > SALT_LENGTH => ~cResult.ok
        /\ cTamperPos <= SALT_LENGTH => cResult = decryptBackup(cEnvelope, cKey)
        /\ cResult.ok => cResult.value = utf8Decode(utf8Encode(cPlain))

\* C2 witness: a byte of the ciphertext region was altered and the open failed.
C2_Witness ==
    /\ OpenedTampered
    /\ cTamperPos > SALT_LENGTH + IV_LENGTH
    /\ cTamperPos <= Len(base64Decode(cBlob)) - AUTH_TAG_LENGTH
    /\ ~cResult.ok
    /\ cResult.error = "auth"

-----------------------------------------------------------------------------
(* scanner.ts: ENV_PATTERNS and isEnvFile.  A filename is a sequence of     *)
(* characters; "LF" stands for the line feed character U+000A.  A pattern   *)
(* is a sequence of atoms between ^ and $: a literal character, or ".+".    *)

\* what "." of a JavaScript regular expression (no s flag) does not match
LineTerminators == {"LF", "CR", "LS", "PS"}

Lit(ch) == [kind |-> "lit", ch |-> ch]
DotPlus == [kind |-> "dotplus", ch |-> ""]

\* [/^\.env$/, /^\.env\..+$/]
ENV_PATTERNS ==
    << <<Lit("."), Lit("e"), Lit("n"), Lit("v")>>,
       <<Lit("."), Lit("e"), Lit("n"), Lit("v"), Lit("."), DotPlus>> >>

\* pattern.test(s) for an anchored pattern: $ (no m flag) is the end of the input
RECURSIVE RegexTest(_, _)
RegexTest(pattern, s) ==
    IF pattern = <<>> THEN s = <<>>
    ELSE LET atom == Head(pattern)
         IN  IF atom.kind = "lit"
             THEN /\ s # <<>>
                  /\ Head(s) = atom.ch
                  /\ RegexTest(Tail(pattern), Tail(s))
             ELSE \E k \in 1..Len(s) :
                    /\ \A i \in 1..k : s[i] \notin LineTerminators
                    /\ RegexTest(Tail(pattern), SubArray(s, k + 1, Len(s)))

isEnvFile(filename) ==
    \E p \in DOMAIN ENV_PATTERNS : RegexTest(ENV_PATTERNS[p], filename)

MaxNameLen == 6

NameAlphabet == {".", "e", "n", "v", "LF"}

NameExamples ==
    { <<".", "e", "n", "v">>,
      <<".", "e", "n", "v", ".", "l", "o", "c", "a", "l">>,
      <<".", "e", "n", "v", ".", "p", "r", "o", "d", "u", "c", "t", "i", "o", "n">>,
      <<".", "e", "n", "v", "i", "r", "o", "n", "m", "e", "n", "t">>,
      <<"e", "n", "v">>,
      <<".", "e", "n", "v", "~">>,
      <<".", "e", "n", "v", ".">> }

Names == NameExamples \cup UNION {[1..n -> NameAlphabet] : n \in 0..MaxNameLen}

EnvInit ==
    /\ CryptoIdle
    /\ ScanIdle
    /\ RestoreIdle
    /\ SealIdle
    /\ ApiIdle
    /\ ePc = "idle"
    /\ eName \in Names
    /\ eResult = FALSE

IsEnvFileCall ==
    /\ ePc = "idle"
    /\ eResult' = isEnvFile(eName)
    /\ ePc' = "done"
    /\ UNCHANGED eName
    /\ UNCHANGED <<cryptoVars, scanVars, restoreVars, sealVars, apiVars, clientVars>>

EnvNext == IsEnvFileCall

SpecEnv == EnvInit /\ [][EnvNext]_vars

DotEnvDot == <<".", "e", "n", "v", ".">>

\* C10 as stated: isEnvFile(name) is true exactly when name is the literal '.env'
\* or is '.env.' followed by at least one character.
C10_EnvPatternExact ==
    ePc = "done" =>
        (eResult <=> \/ eName = <<".", "e", "n", "v">>
                     \/ /\ Len(eName) > Len(DotEnvDot)
                        /\ SubArray(eName, 1, Len(DotEnvDot)) = DotEnvDot)

-----------------------------------------------------------------------------
(* scanner.ts: isProjectRoot, findEnvFiles, scanDirectory.                  *)
(* The filesystem below rootPath is a set of files, each a path relative to *)
(* rootPath (a sequence of entry names); a directory exists when a file     *)
(* lies below it.                                                           *)

PROJECT_MARKERS ==
    <<".git", "package.json", "pyproject.toml", "go.mod", "Cargo.toml", "composer.json">>

SKIP_DIRS ==
    {"node_modules", ".git", "vendor", "dist", "build", ".next", ".nuxt",
     "__pycache__", ".venv", "venv", "target", ".cargo"}

\* the entry names of the modelled trees, spelled out, in readdir order
Spelling ==
    [n \in {".config", ".env", "app", "node_modules", "package.json"} |->
        CASE n = ".config" -> <<".", "c", "o", "n", "f", "i", "g">>
          [] n = ".env" -> <<".", "e", "n", "v">>
          [] n = "app" -> <<"a", "p", "p">>
          [] n = "node_modules" ->
                <<"n", "o", "d", "e", "_", "m", "o", "d", "u", "l", "e", "s">>
          [] OTHER -> <<"p", "a", "c", "k", "a", "g", "e", ".", "j", "s", "o", "n">>]

EntryOrder == <<".config", ".env", "app", "node_modules", "package.json">>

DirNames == {".config", "app", "node_modules"}
FileNames == {".env", "package.json"}

\* name.startsWith(".")
StartsWithDot(name) == Spelling[name][1] = "."

IsPrefix(p, q) == Len(p) <= Len(q) /\ SubArray(q, 1, Len(p)) = p

\* pathExists(path): a file or a directory is there
pathExistsIn(tree, path) == \E f \in tree : IsPrefix(path, f)

\* fs.readdir(dirPath, {withFileTypes: true}), in EntryOrder
EntryIsFile(tree, dirPath, name) == (dirPath \o <<name>>) \in tree
EntryIsDirectory(tree, dirPath, name) ==
    \E f \in tree : IsPrefix(dirPath \o <<name>>, f) /\ Len(f) > Len(dirPath) + 1

readdir(tree, dirPath) ==
    LET present(name) == pathExistsIn(tree, dirPath \o <<name>>)
    IN  SelectSeq(EntryOrder, present)

isProjectRoot(tree, dirPath) ==
    \E i \in DOMAIN PROJECT_MARKERS : pathExistsIn(tree, dirPath \o <<PROJECT_MARKERS[i]>>)

\* readFileContent and sha256, abstract: one content per file, one digest per content
readFileContent(path) == <<"content", path>>
sha256(content) == <<"sha256", content>>

\* a filter that stops at directories that are project roots themselves
DescendIntoStopsAtProjects(tree, dirPath, name) ==
    /\ EntryIsDirectory(tree, dirPath, name)
    /\ name \notin SKIP_DIRS
    /\ ~StartsWithDot(name)
    /\ ~isProjectRoot(tree, dirPath \o <<name>>)

\* the filter without the SKIP_DIRS test
DescendIntoNoSkipList(tree, dirPath, name) ==
    /\ EntryIsDirectory(tree, dirPath, name)
    /\ ~StartsWithDot(name)

\* the directory filter of findEnvFiles.scanDir and of scanDirectory.scan
DescendInto(tree, dirPath, name) ==
    /\ EntryIsDirectory(tree, dirPath, name)
    /\ name \notin SKIP_DIRS
    /\ ~StartsWithDot(name)

\* findEnvFiles(projectPath): scanDir(dirPath, prefix) over the entries from index i;
\* unreadable holds the files and directories whose read throws
RECURSIVE scanDirFrom(_, _, _, _, _, _)
scanDirFrom(tree, unreadable, dirPath, prefix, entries, i) ==
    IF i > Len(entries) THEN <<>>
    ELSE LET name == entries[i]
             entryPath == dirPath \o <<name>>
             here ==
                IF EntryIsFile(tree, dirPath, name) /\ isEnvFile(Spelling[name])
                THEN IF entryPath \in unreadable THEN <<>>
                     ELSE << [filename |-> prefix \o <<name>>,
                              checksum |-> sha256(readFileContent(entryPath)),
                              content |-> readFileContent(entryPath)] >>
                ELSE IF DescendInto(tree, dirPath, name)
                THEN IF entryPath \in unreadable THEN <<>>
                     ELSE scanDirFrom(tree, unreadable, entryPath, prefix \o <<name>>,
                                      readdir(tree, entryPath), 1)
                ELSE <<>>
         IN  here \o scanDirFrom(tree, unreadable, dirPath, prefix, entries, i + 1)

findEnvFiles(tree, unreadable, projectPath) ==
    IF projectPath \in unreadable THEN <<>>
    ELSE scanDirFrom(tree, unreadable, projectPath, <<>>, readdir(tree, projectPath), 1)

\* the directory filter of the loop over rootPath's entries (no startsWith test)
DescendFromRoot(tree, name) ==
    /\ EntryIsDirectory(tree, <<>>, name)
    /\ name \notin SKIP_DIRS

\* a Project; id, name, git and fingerprint come from uuid and fingerprint.js
\* and do not depend on the traversal
MakeProject(tree, unreadable, dirPath) ==
    [path |-> dirPath, envs |-> findEnvFiles(tree, unreadable, dirPath)]

Subdirs(tree, dirPath) ==
    LET keep(name) == DescendInto(tree, dirPath, name)
    IN  SelectSeq(readdir(tree, dirPath), keep)

\* scan(dirPath) up to its loop: the projects it pushes and the subdirectories
\* its loop will visit; readFails says that fs.readdir throws
ScanVisitNoReturn(tree, unreadable, readFails, dirPath) ==
    [emit |-> IF isProjectRoot(tree, dirPath)
              THEN <<MakeProject(tree, unreadable, dirPath)>> ELSE <<>>,
     todo |-> IF readFails THEN <<>> ELSE Subdirs(tree, dirPath)]

scanVisit(tree, unreadable, readFails, dirPath) ==
    IF isProjectRoot(tree, dirPath)
    THEN [emit |-> <<MakeProject(tree, unreadable, dirPath)>>, todo |-> <<>>]
    ELSE [emit |-> <<>>,
          todo |-> IF readFails THEN <<>> ELSE Subdirs(tree, dirPath)]

MaxDepth == 2
MaxItems == 2

DirChains == UNION {[1..n -> DirNames] : n \in 0..MaxDepth}
Items == {d \o <<f>> : d \in DirChains, f \in FileNames}

RECURSIVE SubsetsUpTo(_, _)
SubsetsUpTo(S, k) ==
    IF k = 0 THEN {{}}
    ELSE LET smaller == SubsetsUpTo(S, k - 1)
         IN  smaller \cup {t \cup {x} : t \in smaller, x \in S}

\* a project with a nested project that holds an env file
NestedProjectTrees ==
    {{<<"package.json">>, <<"app", "package.json">>, <<"app", ".env">>},
     {<<"app", "package.json">>, <<"app", "app", "package.json">>, <<"app", "app", ".env">>}}

Trees == SubsetsUpTo(Items, MaxItems) \cup NestedProjectTrees

\* the reads inside dirPath that may throw: none, or one file or directory
UnreadableChoices(tree, dirPath) ==
    {{}} \cup UNION {{{SubArray(f, 1, k)} : k \in (Len(dirPath) + 1)..Len(f)} :
                        f \in {g \in tree : IsPrefix(dirPath, g)}}

ScanInit ==
    /\ CryptoIdle
    /\ EnvIdle
    /\ RestoreIdle
    /\ SealIdle
    /\ ApiIdle
    /\ sPc = "start"
    /\ sTree \in Trees
    /\ sStack = <<>>
    /\ sProjects = <<>>
    /\ sUnreadable = <<>>

\* rootPath is a project root
ScanRootProject ==
    /\ sPc = "start"
    /\ isProjectRoot(sTree, <<>>)
    /\ \E unreadable \in UnreadableChoices(sTree, <<>>) :
        /\ sProjects' = <<MakeProject(sTree, unreadable, <<>>)>>
        /\ sUnreadable' = <<unreadable>>
    /\ sPc' = "done"
    /\ UNCHANGED <<sTree, sStack>>
    /\ UNCHANGED <<cryptoVars, envVars, restoreVars, sealVars, apiVars, clientVars>>

\* rootPath is no project root: loop over its entries
ScanRootSubdirs ==
    /\ sPc = "start"
    /\ ~isProjectRoot(sTree, <<>>)
    /\ LET keep(name) == DescendFromRoot(sTree, name)
       IN  sStack' = <<[dir |-> <<>>, todo |-> SelectSeq(readdir(sTree, <<>>), keep)]>>
    /\ sPc' = "scanning"
    /\ UNCHANGED <<sTree, sProjects, sUnreadable>>
    /\ UNCHANGED <<cryptoVars, envVars, restoreVars, sealVars, apiVars, clientVars>>

\* rootPath is no project root and fs.readdir(rootPath) throws
ScanRootUnreadable ==
    /\ sPc = "start"
    /\ ~isProjectRoot(sTree, <<>>)
    /\ sPc' = "done"
    /\ UNCHANGED <<sTree, sStack, sProjects, sUnreadable>>
    /\ UNCHANGED <<cryptoVars, envVars, restoreVars, sealVars, apiVars, clientVars>>

\* the innermost loop calls scan(subPath) for its next entry
ScanCall ==
    /\ sPc = "scanning"
    /\ sStack # <<>>
    /\ LET top == sStack[Len(sStack)]
           rest == SubArray(sStack, 1, Len(sStack) - 1)
       IN  /\ top.todo # <<>>
           /\ LET subPath == top.dir \o <<Head(top.todo)>>
                  caller == [dir |-> top.dir, todo |-> Tail(top.todo)]
              IN  \E unreadable \in UnreadableChoices(sTree, subPath), readFails \in BOOLEAN :
                    LET v == scanVisit(sTree, unreadable, readFails, subPath)
                    IN  /\ (unreadable # {} => v.emit # <<>>)
                        /\ (readFails => v.emit = <<>>)
                        /\ sProjects' = sProjects \o v.emit
                        /\ sUnreadable' = IF v.emit # <<>> THEN Append(sUnreadable, unreadable)
                                           ELSE sUnreadable
                        /\ sStack' = IF v.emit # <<>> /\ v.todo = <<>>
                                     THEN rest \o <<caller>>
                                     ELSE rest \o <<caller, [dir |-> subPath, todo |-> v.todo]>>
    /\ UNCHANGED <<sPc, sTree>>
    /\ UNCHANGED <<cryptoVars, envVars, restoreVars, sealVars, apiVars, clientVars>>

\* the innermost loop is over: scan returns to its caller, or scanDirectory returns
ScanReturn ==
    /\ sPc = "scanning"
    /\ sStack # <<>>
    /\ sStack[Len(sStack)].todo = <<>>
    /\ sStack' = SubArray(sStack, 1, Len(sStack) - 1)
    /\ sPc' = IF Len(sStack) = 1 THEN "done" ELSE "scanning"
    /\ UNCHANGED <<sTree, sProjects, sUnreadable>>
    /\ UNCHANGED <<cryptoVars, envVars, restoreVars, sealVars, apiVars, clientVars>>

ScanNext ==
    \/ ScanRootProject
    \/ ScanRootSubdirs
    \/ ScanRootUnreadable
    \/ ScanCall
    \/ ScanReturn

SpecScan == ScanInit /\ [][ScanNext]_vars

-----------------------------------------------------------------------------
(* Claims about scanDirectory (checked under SpecScan)                      *)

ThroughSkipDir(path) == \E k \in DOMAIN path : path[k] \in SKIP_DIRS
ThroughHiddenDir(path) == \E k \in DOMAIN path : StartsWithDot(path[k])
DirPart(path) == SubArray(path, 1, Len(path) - 1)

\* C7: no emitted Project has a path, and no emitted EnvFile has a filename, that
\* passes through a directory below the scan root whose name is in the deny-list.
C7_TraversalSkipList ==
    \A i \in DOMAIN sProjects :
        /\ ~ThroughSkipDir(sProjects[i].path)
        /\ \A j \in DOMAIN sProjects[i].envs :
            ~ThroughSkipDir(DirPart(sProjects[i].envs[j].filename))

\* C7 witness: the scan is over, it emitted a project, and the tree holds a file
\* inside a deny-listed directory that lies inside that project.
C7_Witness ==
    /\ sPc = "done"
    /\ \E i \in DOMAIN sProjects : \E f \in sTree :
        /\ IsPrefix(sProjects[i].path, f)
        /\ ThroughSkipDir(DirPart(f))
        /\ isEnvFile(Spelling[f[Len(f)]])

\* C8 as stated: at every level of the traversal, including the direct children of
\* the scan root, no Project is emitted from inside a hidden directory.
C8_HiddenDirSkip ==
    \A i \in DOMAIN sProjects : ~ThroughHiddenDir(sProjects[i].path)

\* C9: no emitted Project's path is a proper descendant of another emitted
\* Project's path, no path is emitted twice, and when the scan root is a project
\* root exactly one Project, the root, is emitted.
C9_NoNestedProjects ==
    /\ \A i, j \in DOMAIN sProjects :
        i # j => ~IsPrefix(sProjects[i].path, sProjects[j].path)
    /\ (sPc = "done" /\ isProjectRoot(sTree, <<>>)) =>
            (Len(sProjects) = 1 /\ sProjects[1].path = <<>>)

\* C9 witness: the scan is over and a project below the root was emitted whose subtree holds a
\* project marker of a nested directory.
C9_Witness ==
    /\ sPc = "done"
    /\ \E i \in DOMAIN sProjects : \E f \in sTree :
        /\ sProjects[i].path # <<>>
        /\ IsPrefix(sProjects[i].path, f)
        /\ Len(f) > Len(sProjects[i].path) + 1
        /\ \E m \in DOMAIN PROJECT_MARKERS : f[Len(f)] = PROJECT_MARKERS[m]
        /\ ~ThroughSkipDir(DirPart(f))
        /\ ~ThroughHiddenDir(DirPart(f))

\* the files of the tree that match the env pattern and lie below root with no
\* deny-listed and no dot-prefixed directory between root and the file, leaving out
\* a file whose read throws and the files below a directory whose readdir throws
EnvFilesBelow(tree, unreadable, root) ==
    {f \in tree :
        /\ IsPrefix(root, f)
        /\ isEnvFile(Spelling[f[Len(f)]])
        /\ \A k \in (Len(root) + 1)..(Len(f) - 1) :
            f[k] \notin SKIP_DIRS /\ ~StartsWithDot(f[k])
        /\ \A k \in Len(root)..Len(f) : SubArray(f, 1, k) \notin unreadable}

\* C23: the env files of an emitted Project are, one EnvFile each, the readable
\* files matching the env pattern in the project's subtree that are reached without
\* passing through a deny-listed or dot-prefixed directory, those inside nested
\* directories with project markers included; each filename is the path relative
\* to the project root and each checksum is the SHA-256 of the content read.
C23_EnvFilesOfWholeSubtree ==
    \A i \in DOMAIN sProjects :
        LET root == sProjects[i].path
            envs == sProjects[i].envs
            expected == EnvFilesBelow(sTree, sUnreadable[i], root)
        IN  /\ {root \o envs[j].filename : j \in DOMAIN envs} = expected
            /\ Len(envs) = Cardinality(expected)
            /\ \A j \in DOMAIN envs :
                /\ envs[j].content = readFileContent(root \o envs[j].filename)
                /\ envs[j].checksum = sha256(envs[j].content)

\* C23 witness: the scan is over and an emitted Project holds an env file that lies
\* in a nested directory with a project marker of its own.
C23_Witness ==
    /\ sPc = "done"
    /\ \E i \in DOMAIN sProjects : \E j \in DOMAIN sProjects[i].envs :
        LET filename == sProjects[i].envs[j].filename
        IN  /\ Len(filename) > 1
            /\ isProjectRoot(sTree, sProjects[i].path \o DirPart(filename))

-----------------------------------------------------------------------------
(* commands/restore.ts: restoreCommand                                      *)

\* Paths are sequences of segments. path.join concatenates and normalises: "." and
\* empty segments vanish and ".." removes the segment before it.
RECURSIVE NormalizeSegments(_, _)
NormalizeSegments(segments, out) ==
    IF segments = <<>> THEN out
    ELSE LET s == Head(segments)
         IN  IF s = "." \/ s = ""
             THEN NormalizeSegments(Tail(segments), out)
             ELSE IF s = ".."
             THEN NormalizeSegments(Tail(segments), SubArray(out, 1, Len(out) - 1))
             ELSE NormalizeSegments(Tail(segments), Append(out, s))

pathJoin(localPath, filename) == NormalizeSegments(localPath \o filename, <<>>)

Absent == "ENOENT"

\* utils/fs: pathExists answers whether something is at the path
pathExists(fs, filePath) == filePath \in DOMAIN fs /\ fs[filePath] # Absent

\* utils/fs: writeFileContent replaces the whole content, or throws and leaves the
\* file as it was
writeFileContent(fs, filePath, content, writeFails) ==
    IF writeFails
    THEN [ok |-> FALSE, fs |-> fs]
    ELSE [ok |-> TRUE,
          fs |-> [q \in DOMAIN fs \cup {filePath} |->
                    IF q = filePath THEN content ELSE fs[q]]]

\* a map that keeps the first path set for a fingerprint
RECURSIVE BuildFingerprintMapFirstWins(_)
BuildFingerprintMapFirstWins(projects) ==
    IF projects = <<>> THEN <<>>
    ELSE LET n == Len(projects)
             map == BuildFingerprintMapFirstWins(SubArray(projects, 1, n - 1))
             project == projects[n]
         IN  [f \in DOMAIN map \cup {project.fingerprint} |->
                IF f \in DOMAIN map THEN map[f] ELSE project.path]

\* scanner.ts buildFingerprintMap: map.set in list order, so the last project with
\* a fingerprint wins
RECURSIVE buildFingerprintMap(_)
buildFingerprintMap(projects) ==
    IF projects = <<>> THEN <<>>
    ELSE LET n == Len(projects)
             map == buildFingerprintMap(SubArray(projects, 1, n - 1))
             project == projects[n]
         IN  [f \in DOMAIN map \cup {project.fingerprint} |->
                IF f = project.fingerprint THEN project.path ELSE map[f]]

NoPath == <<"undefined">>

\* Map.prototype.get
MapGet(map, key) == IF key \in DOMAIN map THEN map[key] ELSE NoPath

\* `if (localPath)`: undefined and the empty string are falsy
Truthy(localPath) == localPath # NoPath /\ localPath # <<>>

\* matching by the recorded path instead of the fingerprint
MatchByRecordedPath(project, localProjects) ==
    IF \E l \in DOMAIN localProjects : localProjects[l].path = project.path
    THEN project.path
    ELSE NoPath

\* the local path a backup project is matched to, or NoPath
LookupLocalPath(project, localProjects) ==
    MapGet(buildFingerprintMap(localProjects), project.fingerprint)

\* the matching loop sending a project without a local match to the path the
\* backup records for it
RECURSIVE MatchProjectsKeepAll(_, _, _)
MatchProjectsKeepAll(projects, localProjects, n) ==
    IF n = 0 THEN [matched |-> <<>>, unmatched |-> <<>>]
    ELSE LET before == MatchProjectsKeepAll(projects, localProjects, n - 1)
             localPath == LookupLocalPath(projects[n], localProjects)
         IN  IF Truthy(localPath)
             THEN [before EXCEPT !.matched =
                        Append(@, [project |-> n, localPath |-> localPath])]
             ELSE [matched |-> Append(before.matched,
                                      [project |-> n, localPath |-> projects[n].path]),
                   unmatched |-> Append(before.unmatched, n)]

\* the matching loop: matched as [project, localPath] with project an index into
\* blob.projects, unmatched as indexes, both in document order
RECURSIVE matchProjects(_, _, _)
matchProjects(projects, localProjects, n) ==
    IF n = 0 THEN [matched |-> <<>>, unmatched |-> <<>>]
    ELSE LET before == matchProjects(projects, localProjects, n - 1)
             localPath == LookupLocalPath(projects[n], localProjects)
         IN  IF Truthy(localPath)
             THEN [before EXCEPT !.matched =
                        Append(@, [project |-> n, localPath |-> localPath])]
             ELSE [before EXCEPT !.unmatched = Append(@, n)]

\* the two nested loops over matched and backupProject.envs, as the list of files
\* in the order they are processed
RECURSIVE FilesOf(_, _, _)
FilesOf(projects, m, j) ==
    IF j = 0 THEN <<>>
    ELSE Append(FilesOf(projects, m, j - 1),
                [project |-> m.project, env |-> j, localPath |-> m.localPath])

RECURSIVE RestoreQueue(_, _)
RestoreQueue(projects, matched) ==
    IF matched = <<>> THEN <<>>
    ELSE LET n == Len(matched)
         IN  RestoreQueue(projects, SubArray(matched, 1, n - 1))
                \o FilesOf(projects, matched[n], Len(projects[matched[n].project].envs))

\* the loop body with the existence test dropped: it always writes
RestoreStepIgnoresExisting(fs, force, filePath, content, writeFails) ==
    LET w == writeFileContent(fs, filePath, content, writeFails)
    IN  [fs |-> w.fs, status |-> IF w.ok THEN "restored" ELSE "failed",
         exists |-> pathExists(fs, filePath), writeIssued |-> TRUE,
         writeFailed |-> ~w.ok]

\* the loop body with options.force dropped: an existing file is always skipped
RestoreStepIgnoresForce(fs, force, filePath, content, writeFails) ==
    LET exists == pathExists(fs, filePath)
        w == writeFileContent(fs, filePath, content, writeFails)
    IN  IF exists
        THEN [fs |-> fs, status |-> "skipped", exists |-> exists,
              writeIssued |-> FALSE, writeFailed |-> FALSE]
        ELSE [fs |-> w.fs, status |-> IF w.ok THEN "restored" ELSE "failed",
              exists |-> exists, writeIssued |-> TRUE, writeFailed |-> ~w.ok]

\* the loop body with a catch block that reports the file as restored
RestoreStepFailureUncounted(fs, force, filePath, content, writeFails) ==
    LET exists == pathExists(fs, filePath)
        w == writeFileContent(fs, filePath, content, writeFails)
    IN  IF exists /\ ~force
        THEN [fs |-> fs, status |-> "skipped", exists |-> exists,
              writeIssued |-> FALSE, writeFailed |-> FALSE]
        ELSE [fs |-> w.fs, status |-> "restored",
              exists |-> exists, writeIssued |-> TRUE, writeFailed |-> ~w.ok]

\* the body of the inner loop for one env file: the try block and its catch.
\* writeFails says whether writeFileContent, if it is called, throws.
RestoreStep(fs, force, filePath, content, writeFails) ==
    LET exists == pathExists(fs, filePath)
        w == writeFileContent(fs, filePath, content, writeFails)
    IN  IF exists /\ ~force
        THEN [fs |-> fs, status |-> "skipped", exists |-> exists,
              writeIssued |-> FALSE, writeFailed |-> FALSE]
        ELSE [fs |-> w.fs, status |-> IF w.ok THEN "restored" ELSE "failed",
              exists |-> exists, writeIssued |-> TRUE, writeFailed |-> ~w.ok]

\* a count that leaves a failed file out
CountStatusDropsFailed(stats, status) ==
    IF status = "restored" THEN [stats EXCEPT !.restored = @ + 1]
    ELSE IF status = "skipped" THEN [stats EXCEPT !.skipped = @ + 1]
    ELSE stats

\* stats after one more file with the given status
CountStatus(stats, status) ==
    IF status = "restored" THEN [stats EXCEPT !.restored = @ + 1]
    ELSE IF status = "skipped" THEN [stats EXCEPT !.skipped = @ + 1]
    ELSE [stats EXCEPT !.failed = @ + 1]

-----------------------------------------------------------------------------
(* The restore machine: one run of restoreCommand                           *)

MaxBackupProjects == 2

LocalPathA == <<"home", "api">>
LocalPathB == <<"home", "web">>
LocalPaths == {LocalPathA, LocalPathB}

Fingerprints == {"fp1", "fp2"}

Filenames == {<<".env">>, <<"config", ".env.local">>}

\* what a backup project records besides its fingerprint: the first has one env
\* file, the second two, and the two disagree on the content of .env.  The last
\* env file records the checksum of other content than it carries.
Metas ==
    { [id |-> "p1", name |-> "api", git |-> "git@host:api.git", path |-> LocalPathA,
       envs |-> <<[filename |-> <<".env">>, checksum |-> sha256("KEY=1"),
                   content |-> "KEY=1"]>>],
      [id |-> "p2", name |-> "web", git |-> "null", path |-> <<"old", "web">>,
       envs |-> <<[filename |-> <<".env">>, checksum |-> sha256("KEY=2"),
                   content |-> "KEY=2"],
                  [filename |-> <<"config", ".env.local">>, checksum |-> sha256("KEY=0"),
                   content |-> "KEY=3"]>>] }

BackupProjects ==
    { [id |-> meta.id, name |-> meta.name, path |-> meta.path, git |-> meta.git,
       fingerprint |-> fp, envs |-> meta.envs] : meta \in Metas, fp \in Fingerprints }

\* blob.projects of a backup document that decrypts and parses
Blobs == UNION {[1..n -> BackupProjects] : n \in 0..MaxBackupProjects}

\* what scanDirectory(cwd) can find: the paths are distinct, the fingerprints need
\* not be
LocalProjectLists ==
    {<<>>}
    \cup {<<[path |-> LocalPathA, fingerprint |-> f]>> : f \in Fingerprints}
    \cup {<<[path |-> LocalPathA, fingerprint |-> f],
            [path |-> LocalPathB, fingerprint |-> g]>> : f, g \in Fingerprints}

DestPaths == {pathJoin(localPath, filename) : localPath \in LocalPaths, filename \in Filenames}

FileSystems == [DestPaths -> {Absent, "OLD=0"}]

RestoreInit ==
    /\ CryptoIdle
    /\ EnvIdle
    /\ ScanIdle
    /\ SealIdle
    /\ ApiIdle
    /\ rPc = "loadConfig"
    /\ rForce \in BOOLEAN
    /\ rFetches = 0
    /\ rScans = 0
    /\ rFailure = "none"
    /\ rBlob = <<>>
    /\ rLocal = <<>>
    /\ rMatched = <<>>
    /\ rUnmatched = <<>>
    /\ rNext = 0
    /\ rFs0 \in FileSystems
    /\ rFs = rFs0
    /\ rStats = [restored |-> 0, skipped |-> 0, failed |-> 0]
    /\ rLog = <<>>
    /\ rExit = "running"
    /\ rFirst = NoFirstRun

\* process.exit(1)
Exit1 ==
    /\ rPc' = "done"
    /\ rExit' = "exit1"

\* loadConfig() returned null
LoadConfigMissing ==
    /\ rPc = "loadConfig"
    /\ rFailure' = "no config"
    /\ Exit1
    /\ UNCHANGED <<rForce, rFetches, rScans, rBlob, rLocal, rMatched, rUnmatched, rNext,
                   rFs0, rFs, rStats, rLog>>
    /\ UNCHANGED <<rFirst, cryptoVars, envVars, scanVars, sealVars, apiVars, clientVars>>

LoadConfigOk ==
    /\ rPc = "loadConfig"
    /\ rPc' = "download"
    /\ UNCHANGED <<rForce, rFetches, rScans, rFailure, rBlob, rLocal, rMatched, rUnmatched,
                   rNext, rFs0, rFs, rStats, rLog, rExit>>
    /\ UNCHANGED <<rFirst, cryptoVars, envVars, scanVars, sealVars, apiVars, clientVars>>

\* what api.getLatestBackup() can do
FetchResults == {"fetch failed", "no backup", "backup"}

\* a catch block that calls getLatestBackup again when it threw
AfterFetchRetries(result) ==
    IF result = "backup" THEN [pc |-> "derive", exit |-> "running"]
    ELSE IF result = "fetch failed" THEN [pc |-> "download", exit |-> "running"]
    ELSE [pc |-> "done", exit |-> "exit1"]

\* where the command is after `await api.getLatestBackup()`: a throw goes to the
\* outer catch and a null to `if (!backup)`, and both call process.exit(1)
AfterFetch(result) ==
    IF result = "backup" THEN [pc |-> "derive", exit |-> "running"]
    ELSE [pc |-> "done", exit |-> "exit1"]

\* api.getLatestBackup() threw or returned null
DownloadFails ==
    /\ rPc = "download"
    /\ rFetches' = rFetches + 1
    /\ \E result \in FetchResults \ {"backup"} :
        /\ rFailure' = result
        /\ rPc' = AfterFetch(result).pc
        /\ rExit' = AfterFetch(result).exit
    /\ UNCHANGED <<rForce, rScans, rBlob, rLocal, rMatched, rUnmatched, rNext,
                   rFs0, rFs, rStats, rLog>>
    /\ UNCHANGED <<rFirst, cryptoVars, envVars, scanVars, sealVars, apiVars, clientVars>>

DownloadOk ==
    /\ rPc = "download"
    /\ rFetches' = rFetches + 1
    /\ rPc' = AfterFetch("backup").pc
    /\ rExit' = AfterFetch("backup").exit
    /\ UNCHANGED <<rForce, rScans, rFailure, rBlob, rLocal, rMatched, rUnmatched, rNext,
                   rFs0, rFs, rStats, rLog>>
    /\ UNCHANGED <<rFirst, cryptoVars, envVars, scanVars, sealVars, apiVars, clientVars>>

\* deriveKey(phrase, salt) rejected: the outer catch
DeriveKeyFails ==
    /\ rPc = "derive"
    /\ rFailure' = "deriveKey failed"
    /\ Exit1
    /\ UNCHANGED <<rForce, rFetches, rScans, rBlob, rLocal, rMatched, rUnmatched, rNext,
                   rFs0, rFs, rStats, rLog>>
    /\ UNCHANGED <<rFirst, cryptoVars, envVars, scanVars, sealVars, apiVars, clientVars>>

\* extractSaltFromBackup, deriveKey
DeriveKeyOk ==
    /\ rPc = "derive"
    /\ rPc' = "decrypt"
    /\ UNCHANGED <<rForce, rFetches, rScans, rFailure, rBlob, rLocal, rMatched, rUnmatched,
                   rNext, rFs0, rFs, rStats, rLog, rExit>>
    /\ UNCHANGED <<rFirst, cryptoVars, envVars, scanVars, sealVars, apiVars, clientVars>>

\* what the inner try block can throw: decrypt (data too short, tag not verified),
\* decompress, JSON.parse
DecryptFailures == {"too short", "auth", "gunzip", "JSON.parse"}

\* decryptBackup or JSON.parse threw
DecryptFails ==
    /\ rPc = "decrypt"
    /\ \E failure \in DecryptFailures : rFailure' = failure
    /\ Exit1
    /\ UNCHANGED <<rForce, rFetches, rScans, rBlob, rLocal, rMatched, rUnmatched, rNext,
                   rFs0, rFs, rStats, rLog>>
    /\ UNCHANGED <<rFirst, cryptoVars, envVars, scanVars, sealVars, apiVars, clientVars>>

DecryptOk ==
    /\ rPc = "decrypt"
    /\ \E projects \in Blobs : rBlob' = projects
    /\ rPc' = "scan"
    /\ UNCHANGED <<rForce, rFetches, rScans, rFailure, rLocal, rMatched, rUnmatched, rNext,
                   rFs0, rFs, rStats, rLog, rExit>>
    /\ UNCHANGED <<rFirst, cryptoVars, envVars, scanVars, sealVars, apiVars, clientVars>>

\* scanDirectory(cwd), buildFingerprintMap, the matching loop, and the return when
\* nothing matched
ScanAndMatch ==
    /\ rPc = "scan"
    /\ rScans' = rScans + 1
    /\ \E localProjects \in LocalProjectLists :
        LET m == matchProjects(rBlob, localProjects, Len(rBlob))
        IN  /\ rLocal' = localProjects
            /\ rMatched' = m.matched
            /\ rUnmatched' = m.unmatched
            /\ IF m.matched = <<>>
               THEN rPc' = "done" /\ rExit' = "returned" /\ rNext' = rNext
               ELSE rPc' = "restore" /\ rExit' = rExit /\ rNext' = 1
    /\ UNCHANGED <<rForce, rFetches, rFailure, rBlob, rFs0, rFs, rStats, rLog>>
    /\ UNCHANGED <<rFirst, cryptoVars, envVars, scanVars, sealVars, apiVars, clientVars>>

\* one pass of the inner loop body
RestoreFile ==
    /\ rPc = "restore"
    /\ rNext <= Len(RestoreQueue(rBlob, rMatched))
    /\ \E writeFails \in BOOLEAN :
        LET file == RestoreQueue(rBlob, rMatched)[rNext]
            backupProject == rBlob[file.project]
            envFile == backupProject.envs[file.env]
            filePath == pathJoin(file.localPath, envFile.filename)
            relativePath == <<backupProject.name>> \o envFile.filename
            r == RestoreStep(rFs, rForce, filePath, envFile.content, writeFails)
        IN  /\ rFs' = r.fs
            /\ rStats' = CountStatus(rStats, r.status)
            /\ rLog' = Append(rLog,
                    [relativePath |-> relativePath, status |-> r.status,
                     project |-> file.project, env |-> file.env, filePath |-> filePath,
                     content |-> envFile.content,
                     before |-> IF pathExists(rFs, filePath) THEN rFs[filePath] ELSE Absent,
                     after |-> IF pathExists(r.fs, filePath) THEN r.fs[filePath] ELSE Absent,
                     writeIssued |-> r.writeIssued, writeFailed |-> r.writeFailed])
    /\ rNext' = rNext + 1
    /\ UNCHANGED <<rPc, rForce, rFetches, rScans, rFailure, rBlob, rLocal, rMatched,
                   rUnmatched, rFs0, rExit>>
    /\ UNCHANGED <<rFirst, cryptoVars, envVars, scanVars, sealVars, apiVars, clientVars>>

\* the loops are over: summary, and the command returns
RestoreSummary ==
    /\ rPc = "restore"
    /\ rNext > Len(RestoreQueue(rBlob, rMatched))
    /\ rPc' = "done"
    /\ rExit' = "returned"
    /\ UNCHANGED <<rForce, rFetches, rScans, rFailure, rBlob, rLocal, rMatched, rUnmatched,
                   rNext, rFs0, rFs, rStats, rLog>>
    /\ UNCHANGED <<rFirst, cryptoVars, envVars, scanVars, sealVars, apiVars, clientVars>>

RestoreNext ==
    \/ LoadConfigMissing
    \/ LoadConfigOk
    \/ DownloadFails
    \/ DownloadOk
    \/ DeriveKeyFails
    \/ DeriveKeyOk
    \/ DecryptFails
    \/ DecryptOk
    \/ ScanAndMatch
    \/ RestoreFile
    \/ RestoreSummary

SpecRestore == RestoreInit /\ [][RestoreNext]_vars

-----------------------------------------------------------------------------
(* restoreCommand run twice in a row on the same backup document, the same  *)
(* local projects and the same force setting                                *)

MaxRerunFiles == 3

\* the disks the two runs start from: every destination absent, or every one there
RerunFileSystems == {fs \in FileSystems : \A p, q \in DestPaths : fs[p] = fs[q]}

\* the first run at the head of its restore loop: the configuration was loaded, the
\* backup fetched, decrypted and parsed, the directory scanned and a project matched
RerunInit ==
    /\ rPc = "restore"
    /\ rForce \in BOOLEAN
    /\ rFetches = 1
    /\ rScans = 1
    /\ rFailure = "none"
    /\ rBlob \in Blobs
    /\ rLocal \in LocalProjectLists
    /\ rMatched = matchProjects(rBlob, rLocal, Len(rBlob)).matched
    /\ rUnmatched = matchProjects(rBlob, rLocal, Len(rBlob)).unmatched
    /\ rMatched # <<>>
    /\ Len(RestoreQueue(rBlob, rMatched)) <= MaxRerunFiles
    /\ rNext = 1
    /\ rFs0 \in RerunFileSystems
    /\ rFs = rFs0
    /\ rStats = [restored |-> 0, skipped |-> 0, failed |-> 0]
    /\ rLog = <<>>
    /\ rExit = "running"
    /\ rFirst = NoFirstRun
    /\ CryptoIdle /\ EnvIdle /\ ScanIdle /\ SealIdle /\ ApiIdle

\* the command is run again and gets to its restore loop with what the first run
\* had: the same document from getLatestBackup and decryptBackup, the same projects
\* from scanDirectory, hence the same matches, and the same options.force; its
\* counters and its list of results start afresh, the disk is what the first run left
RestoreCommandAgain ==
    /\ rPc = "done"
    /\ rExit = "returned"
    /\ rMatched # <<>>
    /\ ~rFirst.done
    /\ rFirst' = [done |-> TRUE, fs |-> rFs, failed |-> rStats.failed]
    /\ rPc' = "restore"
    /\ rExit' = "running"
    /\ rFetches' = rFetches + 1
    /\ rScans' = rScans + 1
    /\ rNext' = 1
    /\ rStats' = [restored |-> 0, skipped |-> 0, failed |-> 0]
    /\ rLog' = <<>>
    /\ UNCHANGED <<rForce, rFailure, rBlob, rLocal, rMatched, rUnmatched, rFs0, rFs>>
    /\ UNCHANGED <<cryptoVars, envVars, scanVars, sealVars, apiVars, clientVars>>

RerunNext ==
    \/ RestoreFile
    \/ RestoreSummary
    \/ RestoreCommandAgain

SpecRerun == RerunInit /\ [][RerunNext]_vars

-----------------------------------------------------------------------------
(* The restore loop over a backup document that the scanner did not write:   *)
(* restoreCommand takes envFile.filename as decryptBackup and JSON.parse     *)
(* give it, whatever string it is.                                          *)

MaxForeignProjects == 2

\* filenames of such a document: .env; config/../.env; ../web/.env; ../../etc/.env;
\* the absolute /etc/.env (an empty first segment)
ForeignFilenames ==
    {<<".env">>, <<"config", "..", ".env">>, <<"..", "web", ".env">>,
     <<"..", "..", "etc", ".env">>, <<"", "etc", ".env">>}

ForeignProjects ==
    { [id |-> "p9", name |-> "api", path |-> LocalPathA, git |-> "null",
       fingerprint |-> fp,
       envs |-> <<[filename |-> filename, checksum |-> sha256("KEY=9"),
                   content |-> "KEY=9"]>>] : filename \in ForeignFilenames, fp \in Fingerprints }

ForeignBlobs == UNION {[1..n -> ForeignProjects] : n \in 1..MaxForeignProjects}

ForeignDestPaths ==
    {pathJoin(localPath, filename) : localPath \in LocalPaths, filename \in ForeignFilenames}

\* the disks the run starts from: every destination absent, or every one there
ForeignFileSystems == {[q \in ForeignDestPaths |-> content] : content \in {Absent, "OLD=0"}}

\* restoreCommand at the head of its restore loop with such a document
ForeignInit ==
    /\ rPc = "restore"
    /\ rForce \in BOOLEAN
    /\ rFetches = 1
    /\ rScans = 1
    /\ rFailure = "none"
    /\ rBlob \in ForeignBlobs
    /\ rLocal \in LocalProjectLists
    /\ rMatched = matchProjects(rBlob, rLocal, Len(rBlob)).matched
    /\ rUnmatched = matchProjects(rBlob, rLocal, Len(rBlob)).unmatched
    /\ rMatched # <<>>
    /\ rNext = 1
    /\ rFs0 \in ForeignFileSystems
    /\ rFs = rFs0
    /\ rStats = [restored |-> 0, skipped |-> 0, failed |-> 0]
    /\ rLog = <<>>
    /\ rExit = "running"
    /\ rFirst = NoFirstRun
    /\ CryptoIdle /\ EnvIdle /\ ScanIdle /\ SealIdle /\ ApiIdle

ForeignNext ==
    \/ RestoreFile
    \/ RestoreSummary

SpecForeign == ForeignInit /\ [][ForeignNext]_vars


-----------------------------------------------------------------------------
(* Claims about restoreCommand (checked under SpecRestore)                  *)

Restoring == rPc = "restore" \/ (rPc = "done" /\ rExit = "returned")
RestoreOver == rPc = "done" /\ rExit = "returned" /\ rMatched # <<>>

CountOf(status) == Cardinality({k \in DOMAIN rLog : rLog[k].status = status})

StatsAgreeWithLog ==
    /\ rStats.restored = CountOf("restored")
    /\ rStats.skipped = CountOf("skipped")
    /\ rStats.failed = CountOf("failed")

\* the writes of the log that went through, to one path
WritesTo(filePath) ==
    {k \in DOMAIN rLog : /\ rLog[k].filePath = filePath
                         /\ rLog[k].writeIssued
                         /\ ~rLog[k].writeFailed}

\* C3: without force, an env file whose destination is there when its turn comes is
\* not written, its destination keeps the content it had, and it is counted as
\* skipped, not as restored or failed.
C3_SkipByDefault ==
    ~rForce =>
        /\ StatsAgreeWithLog
        /\ \A k \in DOMAIN rLog :
            rLog[k].before # Absent =>
                /\ ~rLog[k].writeIssued
                /\ rLog[k].status = "skipped"
                /\ rLog[k].after = rLog[k].before
                /\ rFs[rLog[k].filePath] = rLog[k].before

\* C3 witness: a restore without force is over, and a file whose destination held
\* other content than the backup's was skipped.
C3_Witness ==
    /\ RestoreOver
    /\ ~rForce
    /\ \E k \in DOMAIN rLog :
        /\ rLog[k].before # Absent
        /\ rLog[k].before # rLog[k].content
        /\ rLog[k].status = "skipped"

\* C4 as stated: with force, after the restore the destination of every env file
\* that was there and whose write went through holds the backup's content for that
\* file, and the file is counted as restored.
C4_ForceFinalContent ==
    (rForce /\ RestoreOver) =>
        \A k \in DOMAIN rLog :
            (rLog[k].before # Absent /\ ~rLog[k].writeFailed) =>
                /\ rLog[k].status = "restored"
                /\ rFs[rLog[k].filePath] = rLog[k].content

\* C4, amended: with force, every env file whose destination is there and whose
\* write goes through is counted as restored and leaves the backup's content for
\* that file at the destination; the destination keeps it unless a later env file
\* of the same restore is written to the same path, and then it holds the content
\* of the last one written.
C4_ForceOverwrite ==
    rForce =>
        /\ StatsAgreeWithLog
        /\ \A k \in DOMAIN rLog :
            (rLog[k].before # Absent /\ ~rLog[k].writeFailed) =>
                /\ rLog[k].writeIssued
                /\ rLog[k].status = "restored"
                /\ rLog[k].after = rLog[k].content
                /\ \A last \in WritesTo(rLog[k].filePath) :
                    (\A other \in WritesTo(rLog[k].filePath) : other <= last) =>
                        rFs[rLog[k].filePath] = rLog[last].content

\* C4 witness: a forced restore is over, a file whose destination held other
\* content was overwritten, and a later file was written over it with content of
\* its own.
C4_Witness ==
    /\ RestoreOver
    /\ rForce
    /\ \E k, later \in DOMAIN rLog :
        /\ rLog[k].before = "OLD=0"
        /\ rLog[k].status = "restored"
        /\ later > k
        /\ rLog[later].filePath = rLog[k].filePath
        /\ rLog[later].status = "restored"
        /\ rLog[later].content # rLog[k].content
    /\ \E k \in DOMAIN rLog :
        /\ rLog[k].before = "OLD=0"
        /\ rLog[k].status = "restored"
        /\ WritesTo(rLog[k].filePath) = {k}

\* the same files, from the same disk, with no write failing: the first n of them
RECURSIVE FailureFreeRun(_)
FailureFreeRun(n) ==
    IF n = 0 THEN [fs |-> rFs0, results |-> <<>>]
    ELSE LET sofar == FailureFreeRun(n - 1)
             r == RestoreStep(sofar.fs, rForce, rLog[n].filePath, rLog[n].content, FALSE)
         IN  [fs |-> r.fs,
              results |-> Append(sofar.results,
                                 [status |-> r.status, after |-> r.fs[rLog[n].filePath]])]

\* what C5 says of every restore: a failed write is counted as failed and changes
\* nothing, the command does not exit with an error once the loop runs, and every
\* file of every matched project gets its turn
FailureContained ==
    /\ StatsAgreeWithLog
    /\ \A k \in DOMAIN rLog :
        rLog[k].writeFailed => (rLog[k].status = "failed" /\ rLog[k].after = rLog[k].before)
    /\ rLog # <<>> => rExit # "exit1"
    /\ Len(rLog) <= Len(RestoreQueue(rBlob, rMatched))
    /\ RestoreOver => Len(rLog) = Len(RestoreQueue(rBlob, rMatched))

HasLocal(fingerprint) == \E l \in DOMAIN rLocal : rLocal[l].fingerprint = fingerprint

LastLocalPath(fingerprint) ==
    LET last == CHOOSE l \in DOMAIN rLocal :
                    /\ rLocal[l].fingerprint = fingerprint
                    /\ \A l2 \in DOMAIN rLocal :
                        rLocal[l2].fingerprint = fingerprint => l2 <= l
    IN  rLocal[last].path

\* C6: a backup project is matched exactly when a scanned local project has the same
\* fingerprint, whatever name, recorded path, git URL and id the backup holds; it
\* is matched to the path of that local project (the last one scanned with that
\* fingerprint), and that path is where its env files are written.
C6_MatchByFingerprintOnly ==
    Restoring =>
        /\ \A n \in DOMAIN rBlob :
            /\ (\E i \in DOMAIN rMatched : rMatched[i].project = n)
                    <=> HasLocal(rBlob[n].fingerprint)
            /\ (\E u \in DOMAIN rUnmatched : rUnmatched[u] = n)
                    <=> ~HasLocal(rBlob[n].fingerprint)
        /\ \A i \in DOMAIN rMatched :
            rMatched[i].localPath = LastLocalPath(rBlob[rMatched[i].project].fingerprint)
        /\ \A k \in DOMAIN rLog :
            rLog[k].filePath =
                pathJoin(LastLocalPath(rBlob[rLog[k].project].fingerprint),
                         rBlob[rLog[k].project].envs[rLog[k].env].filename)

\* C6 witness: a restore is over in which a backup project was matched to a local
\* path other than the one it records and a file of it was written there, while a
\* backup project that records the path of a scanned local project stayed
\* unmatched.
C6_Witness ==
    /\ RestoreOver
    /\ \E k \in DOMAIN rLog :
        /\ rLog[k].status = "restored"
        /\ ~IsPrefix(rBlob[rLog[k].project].path, rLog[k].filePath)
    /\ \E u \in DOMAIN rUnmatched : \E l \in DOMAIN rLocal :
        rBlob[rUnmatched[u]].path = rLocal[l].path


\* C22: the map buildFingerprintMap makes of the scanned projects has exactly the
\* fingerprints that occur in the list as keys and maps each to the path of the
\* last project in the list with that fingerprint; two backup projects with one
\* fingerprint that a scanned project has are both matched, to that one path.
C22_LastWriteWins ==
    Restoring =>
        LET map == buildFingerprintMap(rLocal)
        IN  /\ DOMAIN map = {rLocal[l].fingerprint : l \in DOMAIN rLocal}
            /\ \A f \in DOMAIN map : map[f] = LastLocalPath(f)
            /\ \A n, m \in DOMAIN rBlob :
                (rBlob[n].fingerprint = rBlob[m].fingerprint
                    /\ rBlob[n].fingerprint \in DOMAIN map) =>
                    \E i, j \in DOMAIN rMatched :
                        /\ rMatched[i].project = n
                        /\ rMatched[j].project = m
                        /\ rMatched[i].localPath = map[rBlob[n].fingerprint]
                        /\ rMatched[j].localPath = map[rBlob[n].fingerprint]

\* C22 witness: two scanned projects share a fingerprint, two backup projects have
\* it too, and a file of each was written under the path of the second scanned
\* project.
C22_Witness ==
    /\ RestoreOver
    /\ Len(rLocal) = 2
    /\ rLocal[1].fingerprint = rLocal[2].fingerprint
    /\ Len(rBlob) = 2
    /\ rBlob[1].fingerprint = rLocal[1].fingerprint
    /\ rBlob[2].fingerprint = rLocal[1].fingerprint
    /\ \A n \in DOMAIN rBlob : \E k \in DOMAIN rLog :
        /\ rLog[k].project = n
        /\ rLog[k].status = "restored"
        /\ IsPrefix(rLocal[2].path, rLog[k].filePath)
        /\ ~IsPrefix(rLocal[1].path, rLog[k].filePath)

\* the env files of the matched backup projects, as <<project, env>> pairs
MatchedFiles ==
    UNION {{<<rMatched[i].project, j>> : j \in DOMAIN rBlob[rMatched[i].project].envs} :
            i \in DOMAIN rMatched}

\* C24: while the write loop runs, restored + skipped + failed is the number of
\* files processed so far and each processed file is counted in exactly one of the
\* three counters (the one of the status reported for it); when the loop is over
\* the sum is the number of env files of all matched backup projects and every one
\* of them was processed once.
C24_CountsConserved ==
    Restoring =>
        /\ rStats.restored + rStats.skipped + rStats.failed = Len(rLog)
        /\ rPc = "restore" => Len(rLog) = rNext - 1
        /\ StatsAgreeWithLog
        /\ \A k \in DOMAIN rLog : rLog[k].status \in {"restored", "skipped", "failed"}
        /\ \A k, l \in DOMAIN rLog :
            (rLog[k].project = rLog[l].project /\ rLog[k].env = rLog[l].env) => k = l
        /\ {<<rLog[k].project, rLog[k].env>> : k \in DOMAIN rLog} \subseteq MatchedFiles
        /\ rPc = "done" =>
            /\ rStats.restored + rStats.skipped + rStats.failed
                = SumSeq([i \in DOMAIN rMatched |-> Len(rBlob[rMatched[i].project].envs)])
            /\ {<<rLog[k].project, rLog[k].env>> : k \in DOMAIN rLog} = MatchedFiles

\* C24 witness: a restore is over in which one file was restored and one failed
\* while a backup project with env files stayed unmatched.
C24_Witness ==
    /\ RestoreOver
    /\ rStats.restored > 0
    /\ rStats.failed > 0
    /\ \E u \in DOMAIN rUnmatched : rBlob[rUnmatched[u]].envs # <<>>

\* the env file of the backup document that a restoreItem call was about
EnvFileOfEntry(entry) == rBlob[entry.project].envs[entry.env]

\* C11 as stated: during restore, an env file whose recorded checksum differs from
\* the SHA-256 digest of its content is not written to disk and is not reported as
\* restored.
C11_ChecksumMismatchNotWritten ==
    \A k \in DOMAIN rLog :
        EnvFileOfEntry(rLog[k]).checksum # sha256(EnvFileOfEntry(rLog[k]).content) =>
            /\ ~rLog[k].writeIssued
            /\ rLog[k].status # "restored"


\* C12: a failure before the matching phase (no backup fetched, or key derivation,
\* decryption, decompression or JSON parsing failed) ends the command with exit
\* code 1, with no scan made, no file checked or written and nothing matched; the
\* latest backup is fetched at most once, and exactly once when the command gets
\* past the download.
C12_FatalBeforeMatching ==
    /\ rFetches <= 1
    /\ rPc \in {"derive", "decrypt", "scan", "restore"} => rFetches = 1
    /\ rFailure \in (FetchResults \ {"backup"}) => rFetches = 1
    /\ rFailure # "none" =>
        /\ rPc = "done"
        /\ rExit = "exit1"
        /\ rScans = 0
        /\ rLocal = <<>>
        /\ rMatched = <<>>
        /\ rLog = <<>>
        /\ rFs = rFs0
        /\ rStats = [restored |-> 0, skipped |-> 0, failed |-> 0]

\* C12 witness: the fetch was made once and the decrypted bytes did not parse, with
\* files on disk that a restore would have met.
C12_Witness ==
    /\ rFailure = "JSON.parse"
    /\ rExit = "exit1"
    /\ rFetches = 1
    /\ \E p \in DOMAIN rFs : rFs[p] # Absent


\* the ways an envelope can fail to open in restoreCommand
OpenedWithWrongKey == Opened /\ cOpenKey # cKey
OpenedCorrupted == Opened /\ cTamperPos > SALT_LENGTH
OpenedTruncated ==
    Opened /\ cTamperPos = 0 /\ cEnvelope # <<>> /\ cBlob # cEnvelope
OpenedNotGzip == Opened /\ cEnvelope = <<>>
OpenedNotJson == Opened /\ cResult.ok /\ ~JSONparse(cResult.value).ok

\* C13: in restoreCommand, opening an envelope with a wrong key, opening a corrupted
\* or truncated envelope, a decompression failure and a JSON parse failure of the
\* decrypted bytes all end in the same outcome: the same spinner text, the same
\* error message and exit code 1; and the command goes on only when the envelope
\* opened and its content parsed.
C13_UniformFailure ==
    Opened =>
        /\ (\/ OpenedWithWrongKey
            \/ OpenedCorrupted
            \/ OpenedTruncated
            \/ OpenedNotGzip
            \/ OpenedNotJson) => afterDecryptBackup(cResult) = DecryptionFailed
        /\ afterDecryptBackup(cResult).exit # 0 => afterDecryptBackup(cResult) = DecryptionFailed
        /\ afterDecryptBackup(cResult).exit = 0 => (cResult.ok /\ JSONparse(cResult.value).ok)

\* C13 witness: an envelope cut below the shortest length decrypt accepts was
\* opened with the right key; decrypt threw its length error, not the tag error.
C13_Witness ==
    /\ OpenedTruncated
    /\ cOpenKey = cKey
    /\ cResult.error = "too short"
    /\ afterDecryptBackup(cResult) = DecryptionFailed


-----------------------------------------------------------------------------
(* crypto.ts: a sequence of encryptBackup calls.  Each call of encrypt      *)
(* draws its nonce with crypto.randomBytes(IV_LENGTH); what the call         *)
(* returns is kept next to the envelope.                                     *)

MaxSeals == 2

SealPlaintexts == {<<>>, <<65>>, EmptyObjectText}

\* recovery phrases, as strings of code units
Phrases == {<<97, 98>>, <<98, 97, 98>>}

\* crypto.pbkdf2(password, salt, PBKDF2_ITERATIONS, keylen, "sha256"), abstracted: a
\* fixed mixing of the password and the salt that yields keylen bytes
pbkdf2(password, saltBuffer, keylen) ==
    LET n == Len(saltBuffer)
        weighted == SumSeq([k \in 1..Len(password) |-> k * password[k]])
    IN  [i \in 1..keylen |->
            (weighted * (i + 2) + SumSeq(saltBuffer)
                + (IF n = 0 THEN 0 ELSE i * saltBuffer[((i - 1) % n) + 1])) % 256]

deriveKey(phrase, salt) == pbkdf2(utf8Encode(phrase), base64Decode(salt), KEY_LENGTH)

\* restoreCommand deriving the key with a salt of its own instead of the envelope's
RestoreOpenOwnSalt(blob, phrase) ==
    LET salt == generateSalt([i \in 1..SALT_LENGTH |-> i])
        key == deriveKey(phrase, salt)
    IN  [salt |-> salt, key |-> key, decrypted |-> decryptBackup(blob, key)]

\* restoreCommand: extractSaltFromBackup(backup.blob), deriveKey(phrase, salt), and
\* then decryptBackup(backup.blob, key)
restoreOpen(blob, phrase) ==
    LET salt == extractSaltFromBackup(blob)
        key == deriveKey(phrase, salt)
    IN  [salt |-> salt, key |-> key, decrypted |-> decryptBackup(blob, key)]

SealInit ==
    /\ CryptoIdle
    /\ EnvIdle
    /\ ScanIdle
    /\ RestoreIdle
    /\ ApiIdle
    /\ kSeals = <<>>

SealCall ==
    /\ Len(kSeals) < MaxSeals
    /\ \E data \in SealPlaintexts, phrase \in Phrases, salt \in Salts, random \in IVs :
        LET key == deriveKey(phrase, salt)
        IN  kSeals' = Append(kSeals,
                [data |-> data, phrase |-> phrase, key |-> key, salt |-> salt,
                 random |-> random,
                 envelope |-> encryptBackup(data, key, salt, random)])
    /\ UNCHANGED <<cryptoVars, envVars, scanVars, restoreVars, apiVars, clientVars>>

SealNext == SealCall

SpecSeal == SealInit /\ [][SealNext]_vars

\* the nonce an envelope carries: the IV_LENGTH bytes after the salt
NonceOf(envelope) ==
    SubArray(base64Decode(envelope), SALT_LENGTH + 1, SALT_LENGTH + IV_LENGTH)

C15_SaltRecovery ==
    \A i \in DOMAIN kSeals :
        LET seal == kSeals[i]
            bytes == base64Decode(seal.envelope)
            n == Len(bytes)
            ciphertext == SubArray(bytes, SALT_LENGTH + IV_LENGTH + 1, n - AUTH_TAG_LENGTH)
            opened == restoreOpen(seal.envelope, seal.phrase)
        IN  /\ extractSaltFromBackup(seal.envelope) = seal.salt
            /\ n >= SALT_LENGTH + IV_LENGTH + AUTH_TAG_LENGTH
            /\ SubArray(bytes, 1, SALT_LENGTH) = base64Decode(seal.salt)
            /\ SubArray(bytes, SALT_LENGTH + 1, SALT_LENGTH + IV_LENGTH) = seal.random
            /\ ciphertext = CipherUpdate(compress(seal.data), seal.key, seal.random)
            /\ SubArray(bytes, n - AUTH_TAG_LENGTH + 1, n)
                    = AuthTag(seal.key, seal.random, ciphertext)
            /\ opened.salt = seal.salt
            /\ opened.key = seal.key
            /\ opened.decrypted.ok
            /\ opened.decrypted.value = seal.data

\* C15 witness: two envelopes were sealed with the same phrase and different salts,
\* hence different keys, and each gives back its own salt.
C15_Witness ==
    /\ Len(kSeals) = 2
    /\ kSeals[1].phrase = kSeals[2].phrase
    /\ kSeals[1].salt # kSeals[2].salt
    /\ kSeals[1].key # kSeals[2].key
    /\ kSeals[1].data # <<>>
    /\ extractSaltFromBackup(kSeals[1].envelope) = kSeals[1].salt
    /\ extractSaltFromBackup(kSeals[2].envelope) = kSeals[2].salt


\* the paths restoreCommand has called pathExists on, and those it has called
\* writeFileContent on
PathsChecked == {rLog[k].filePath : k \in DOMAIN rLog}
PathsWritten == {rLog[k].filePath : k \in {j \in DOMAIN rLog : rLog[j].writeIssued}}

\* C16: no path is checked or written for an env file of a backup project whose
\* fingerprint no scanned local project has: every file that gets its turn belongs
\* to a matched project, the disk changes only where such a file was written, and
\* when no project matches nothing is checked or written and the command returns
\* normally.
C16_UnmatchedUntouched ==
    /\ \A k \in DOMAIN rLog :
        /\ HasLocal(rBlob[rLog[k].project].fingerprint)
        /\ ~\E u \in DOMAIN rUnmatched : rUnmatched[u] = rLog[k].project
    /\ \A p \in DOMAIN rFs : rFs[p] # rFs0[p] => p \in PathsWritten
    /\ (rScans > 0 /\ rMatched = <<>>) =>
        /\ rPc = "done"
        /\ rExit = "returned"
        /\ PathsChecked = {}
        /\ rFs = rFs0

\* C16 witness: a restore is over in which a file of a matched project was written
\* while a project with env files, whose recorded path is a scanned local path,
\* stayed unmatched.
C16_Witness ==
    /\ RestoreOver
    /\ \E k \in DOMAIN rLog : rLog[k].status = "restored"
    /\ \E u \in DOMAIN rUnmatched :
        /\ rBlob[rUnmatched[u]].envs # <<>>
        /\ \E l \in DOMAIN rLocal : rLocal[l].path = rBlob[rUnmatched[u]].path

-----------------------------------------------------------------------------
(* Claims about restoring a document with any filenames (checked under       *)
(* SpecForeign)                                                             *)

\* the local path of the matched project that a restoreItem call was about
LocalPathOfEntry(entry) ==
    LET i == CHOOSE m \in DOMAIN rMatched : rMatched[m].project = entry.project
    IN  rMatched[i].localPath

\* C25 as stated: whatever the filename of an env file entry is, the path that
\* restoreCommand checks and writes lies within the local path of the project the
\* entry was matched to, and no file outside the directories of the matched
\* projects is created or overwritten.
C25_WritesInsideMatchedProject ==
    /\ \A k \in DOMAIN rLog : IsPrefix(LocalPathOfEntry(rLog[k]), rLog[k].filePath)
    /\ \A q \in DOMAIN rFs :
        (q \notin DOMAIN rFs0 \/ rFs[q] # rFs0[q]) =>
            \E m \in DOMAIN rMatched : IsPrefix(rMatched[m].localPath, q)

-----------------------------------------------------------------------------
(* Claims about two runs of restoreCommand in a row (checked under SpecRerun) *)

SecondRun == rFirst.done
SecondRunOver == rFirst.done /\ rPc = "done" /\ rExit = "returned"

-----------------------------------------------------------------------------
(* api/src: values of the API server.  A string that the code takes apart  *)
(* (a query parameter, the Authorization header, the admin key) is a        *)
(* sequence of one-character strings, and Missing is its `undefined`;       *)
(* identifiers and event types are whole strings.  A number is a record,    *)
(* so that NaN is a number too.  A Buffer is kept as a number of leading    *)
(* zero bytes and the bytes after them, a base64 text as a number of        *)
(* leading "AAAA" groups and the characters after them.                     *)

Null == "null"
Undefined == "undefined"
Missing == <<"undefined">>

NaN == [nan |-> TRUE, value |-> 0]
Number(n) == [nan |-> FALSE, value |-> n]

\* Math.min(a, b)
MathMin(a, b) ==
    IF a.nan \/ b.nan THEN NaN
    ELSE IF a.value <= b.value THEN a ELSE b

WhiteSpace == {" ", "\t", "\n"}
DecimalDigits == <<"0", "1", "2", "3", "4", "5", "6", "7", "8", "9">>
HexLetters == <<"a", "b", "c", "d", "e", "f">>
HexCapitals == <<"A", "B", "C", "D", "E", "F">>

\* the value of a character as a digit, -1 when it is none
DigitOf(ch) ==
    IF \E d \in 1..10 : DecimalDigits[d] = ch
    THEN (CHOOSE d \in 1..10 : DecimalDigits[d] = ch) - 1
    ELSE IF \E d \in 1..6 : HexLetters[d] = ch \/ HexCapitals[d] = ch
    THEN (CHOOSE d \in 1..6 : HexLetters[d] = ch \/ HexCapitals[d] = ch) + 9
    ELSE -1

RECURSIVE TrimStart(_)
TrimStart(string) ==
    IF string # <<>> /\ string[1] \in WhiteSpace THEN TrimStart(Tail(string)) ELSE string

\* the longest prefix of digits of the radix, as a number
RECURSIVE ParseDigits(_, _, _)
ParseDigits(string, radix, acc) ==
    IF string # <<>> /\ DigitOf(string[1]) >= 0 /\ DigitOf(string[1]) < radix
    THEN ParseDigits(Tail(string), radix,
                     [seen |-> TRUE, value |-> acc.value * radix + DigitOf(string[1])])
    ELSE acc

\* parseInt(string) without a radix: leading white space, a sign, "0x" for
\* hexadecimal, then digits up to the first character that is none
parseInt(string) ==
    LET s == TrimStart(string)
        negative == s # <<>> /\ s[1] = "-"
        unsigned == IF s # <<>> /\ s[1] \in {"+", "-"} THEN Tail(s) ELSE s
        hex == Len(unsigned) >= 2 /\ unsigned[1] = "0" /\ unsigned[2] \in {"x", "X"}
        digits == IF hex
                  THEN ParseDigits(SubArray(unsigned, 3, Len(unsigned)), 16,
                                   [seen |-> FALSE, value |-> 0])
                  ELSE ParseDigits(unsigned, 10, [seen |-> FALSE, value |-> 0])
    IN  IF ~digits.seen THEN NaN
        ELSE Number(IF negative THEN 0 - digits.value ELSE digits.value)

\* value || fallback, for a string
OrString(value, fallback) == IF value = Missing \/ value = <<>> THEN fallback ELSE value

\* string.split(separator), for a separator of one character
RECURSIVE split(_, _)
split(string, separator) ==
    LET at == {i \in 1..Len(string) : string[i] = separator}
    IN  IF at = {} THEN <<string>>
        ELSE LET first == CHOOSE i \in at : \A j \in at : i <= j
             IN  <<SubArray(string, 1, first - 1)>>
                 \o split(SubArray(string, first + 1, Len(string)), separator)

\* Buffer.from(text, "base64")
BufferFromBase64(text) == [zeros |-> 3 * text.fill, bytes |-> base64Decode(text.text)]

\* buffer.toString("base64")
BufferToBase64(buffer) == [fill |-> buffer.zeros \div 3, text |-> base64Encode(buffer.bytes)]

\* buffer.length
BufferLength(buffer) == buffer.zeros + Len(buffer.bytes)

-----------------------------------------------------------------------------
(* api/src/db/schema.ts over a PostgreSQL database.  The database is its    *)
(* clock and its three tables; backups and events are kept in insertion     *)
(* order.  A statement that evaluates NOW() gets a time later than every    *)
(* time given before.  A timestamp column that is NULL holds NoTime.        *)

NoTime == 0

EmptyDatabase == [clock |-> 0, vaults |-> {}, backups |-> <<>>, events |-> <<>>]

Database == [clock |-> aClock, vaults |-> aVaults, backups |-> aBackups, events |-> aEvents]

\* INSERT INTO vaults (id, created_at) VALUES ($1, NOW()) ON CONFLICT (id) DO NOTHING
createVault(db, id) ==
    LET now == db.clock + 1
    IN  [db EXCEPT !.clock = now,
                   !.vaults = IF \E v \in @ : v.id = id THEN @
                              ELSE @ \cup {[id |-> id, created_at |-> now,
                                            last_backup_at |-> NoTime]}]

\* UPDATE vaults SET last_backup_at = NOW() WHERE id = $1
updateVaultLastBackup(db, id) ==
    LET now == db.clock + 1
    IN  [db EXCEPT !.clock = now,
                   !.vaults = {IF v.id = id THEN [v EXCEPT !.last_backup_at = now] ELSE v :
                               v \in @}]

\* the primary key of backups: INSERT throws when the id is taken
BackupIdTaken(db, id) == \E i \in DOMAIN db.backups : db.backups[i].id = id

\* createBackup: INSERT INTO backups (...) VALUES ($1, $2, $3, $4, $5, NOW())
insertBackup(db, id, vaultId, blob, deviceId) ==
    LET now == db.clock + 1
    IN  [db EXCEPT !.clock = now,
                   !.backups = Append(@, [id |-> id, vault_id |-> vaultId, blob |-> blob,
                                          size_bytes |-> BufferLength(blob),
                                          created_at |-> now,
                                          device_id |-> IF deviceId = Undefined \/ deviceId = ""
                                                        THEN Null ELSE deviceId])]

\* getBackupById: SELECT ... FROM backups WHERE id = $1
getBackupById(db, id) ==
    LET rows == {i \in DOMAIN db.backups : db.backups[i].id = id}
    IN  IF rows = {} THEN [found |-> FALSE]
        ELSE [found |-> TRUE, row |-> db.backups[CHOOSE i \in rows : TRUE]]

\* SELECT ... FROM backups WHERE vault_id = $1 ORDER BY created_at DESC, as positions
\* in the table
RECURSIVE OrderByCreatedAtDesc(_, _)
OrderByCreatedAtDesc(table, rows) ==
    IF rows = {} THEN <<>>
    ELSE LET top == CHOOSE i \in rows :
                        \A j \in rows : table[j].created_at <= table[i].created_at
         IN  <<top>> \o OrderByCreatedAtDesc(table, rows \ {top})

\* the selection without its WHERE clause
BackupsOfAllVaults(db, vaultId) ==
    OrderByCreatedAtDesc(db.backups, DOMAIN db.backups)

BackupsOf(db, vaultId) ==
    OrderByCreatedAtDesc(db.backups, {i \in DOMAIN db.backups : db.backups[i].vault_id = vaultId})

\* a getLatestBackup that takes the row stored first
GetOldestBackup(db, vaultId) ==
    LET rows == BackupsOf(db, vaultId)
    IN  IF rows = <<>> THEN [found |-> FALSE]
        ELSE [found |-> TRUE, row |-> db.backups[rows[Len(rows)]]]

\* getLatestBackup: ... ORDER BY created_at DESC LIMIT 1
getLatestBackup(db, vaultId) ==
    LET rows == BackupsOf(db, vaultId)
    IN  IF rows = <<>> THEN [found |-> FALSE]
        ELSE [found |-> TRUE, row |-> db.backups[rows[1]]]

\* PostgreSQL rejects a LIMIT or OFFSET that is negative or no integer
LimitOffsetRejected(limit, offset) ==
    \/ limit.nan \/ offset.nan
    \/ limit.value < 0 \/ offset.value < 0

\* rows LIMIT $2 OFFSET $3
LimitOffset(rows, limit, offset) ==
    SubArray(rows, offset.value + 1,
             IF offset.value + limit.value < Len(rows) THEN offset.value + limit.value
             ELSE Len(rows))

\* listBackups: the count query, then the page query
listBackups(db, vaultId, limit, offset) ==
    LET rows == BackupsOf(db, vaultId)
        total == Len(rows)
        page == LimitOffset(rows, limit, offset)
    IN  IF LimitOffsetRejected(limit, offset) THEN [threw |-> TRUE]
        ELSE [threw |-> FALSE, total |-> total,
              backups |-> [k \in DOMAIN page |->
                              [id |-> db.backups[page[k]].id,
                               created_at |-> db.backups[page[k]].created_at,
                               size_bytes |-> db.backups[page[k]].size_bytes,
                               device_id |-> db.backups[page[k]].device_id]]]

NoMetadata == [null |-> TRUE]

\* logEvent: INSERT INTO events (...) VALUES ($1, $2, $3, $4, $5, $6, NOW())
logEvent(db, eventType, vaultId, backupId, metadata) ==
    LET now == db.clock + 1
    IN  [db EXCEPT !.clock = now,
                   !.events = Append(@, [id |-> Len(@) + 1, event_type |-> eventType,
                                         vault_id |-> vaultId, backup_id |-> backupId,
                                         metadata |-> metadata, ip_address |-> Null,
                                         user_agent |-> Null, created_at |-> now])]

TicksPerDay == 4

\* CURRENT_DATE: the start of the day of NOW()
CurrentDate(now) == now - (now % TicksPerDay)

CountRows(table, Keep(_)) == Cardinality({i \in DOMAIN table : Keep(table[i])})

\* getAnalyticsSummary: six queries under Promise.all
getAnalyticsSummary(db) ==
    LET today(row) == row.created_at >= CurrentDate(db.clock)
        all(row) == TRUE
    IN  [totalVaults |-> Cardinality(db.vaults),
         totalBackups |-> CountRows(db.backups, all),
         totalEvents |-> CountRows(db.events, all),
         totalStorageBytes |-> SumSeq([i \in DOMAIN db.backups |-> db.backups[i].size_bytes]),
         eventsToday |-> CountRows(db.events, today),
         backupsToday |-> CountRows(db.backups, today)]

\* getEventCountsByType: the count of the events of the last `days` days for each
\* event type that has one; the order of the rows (by count) is left out
getEventCountsByType(db, days) ==
    LET recent(row) == row.created_at >= db.clock - days * TicksPerDay
        types == {db.events[i].event_type : i \in {j \in DOMAIN db.events : recent(db.events[j])}}
    IN  {[event_type |-> t,
          count |-> Cardinality({i \in DOMAIN db.events :
                                    recent(db.events[i]) /\ db.events[i].event_type = t})] :
         t \in types}

\* getEvents: the WHERE clause from eventType and vaultId, the count query, then the
\* page query
getEvents(db, eventType, vaultId, limit, offset) ==
    LET where(row) == /\ (eventType # Undefined /\ eventType # "") => row.event_type = eventType
                      /\ (vaultId # Undefined /\ vaultId # "") => row.vault_id = vaultId
        rows == OrderByCreatedAtDesc(db.events, {i \in DOMAIN db.events : where(db.events[i])})
        page == LimitOffset(rows, limit, offset)
    IN  IF LimitOffsetRejected(limit, offset) THEN [threw |-> TRUE]
        ELSE [threw |-> FALSE, total |-> Len(rows),
              events |-> [k \in DOMAIN page |-> db.events[page[k]]]]

-----------------------------------------------------------------------------
(* api/src/routes/backup.ts: the handlers.  A handler is given the database, *)
(* the vault id that authMiddleware has set on the context, its inputs, and  *)
(* the number of the db call that throws (0 when none does); it gives the    *)
(* database after it, the response, and the db functions called.             *)

MAX_BACKUP_SIZE == 10 * 1024 * 1024

Answer(db, response, queries) ==
    [db |-> db, response |-> response, queries |-> queries, caught |-> "none"]

InternalServerError == [status |-> 500, error |-> "Internal server error"]

\* the catch block of a handler, for what is no SyntaxError
Caught(db, error, queries) ==
    [db |-> db, response |-> InternalServerError, queries |-> queries, caught |-> error]

Call(fn) == [fn |-> fn]

\* what c.req.json() gives for the request text `null`
JsonNull == [json |-> TRUE, null |-> TRUE]

\* !body.blob
BlobFalsy(blob) ==
    \/ blob.type = "undefined"
    \/ blob.type = "string" /\ blob.fill = 0 /\ blob.text = <<>>
    \/ blob.type = "number" /\ blob.value = 0

\* backup.post("/")
postBackup(db, vaultId, body, backupId, fails) ==
    IF ~body.json
    THEN [db |-> db, response |-> [status |-> 400, error |-> "Invalid JSON body"],
          queries |-> <<>>, caught |-> "SyntaxError"]
    ELSE IF body = JsonNull THEN Caught(db, "TypeError", <<>>)
    ELSE IF BlobFalsy(body.blob)
    THEN Answer(db, [status |-> 400, error |-> "Missing blob field"], <<>>)
    ELSE IF body.blob.type # "string" THEN Caught(db, "TypeError", <<>>)
    ELSE
        LET blobBuffer == BufferFromBase64(body.blob)
            db1 == createVault(db, vaultId)
            db2 == insertBackup(db1, backupId, vaultId, blobBuffer, body.deviceId)
            db3 == updateVaultLastBackup(db2, vaultId)
            record == getBackupById(db3, backupId).row
            db4 == logEvent(db3, "backup.created", vaultId, record.id,
                            [sizeBytes |-> record.size_bytes, deviceId |-> body.deviceId])
            calls == <<Call("createVault"), Call("createBackup"),
                       Call("updateVaultLastBackup"), Call("getBackupById"),
                       Call("logEvent")>>
        IN  IF BufferLength(blobBuffer) > MAX_BACKUP_SIZE
            THEN Answer(db, [status |-> 413, error |-> "Payload too large"], <<>>)
            ELSE IF fails = 1 THEN Caught(db, "db error", SubSeq(calls, 1, 1))
            ELSE IF fails = 2 \/ BackupIdTaken(db1, backupId)
            THEN Caught(db1, "db error", SubSeq(calls, 1, 2))
            ELSE IF fails = 3 THEN Caught(db2, "db error", SubSeq(calls, 1, 3))
            ELSE IF fails = 4 THEN Caught(db3, "db error", SubSeq(calls, 1, 4))
            ELSE IF fails = 5 THEN Caught(db3, "db error", calls)
            ELSE Answer(db4,
                        [status |-> 201, id |-> record.id, vaultId |-> record.vault_id,
                         createdAt |-> record.created_at, sizeBytes |-> record.size_bytes],
                        calls)

\* backup.get("/latest")
getBackupLatest(db, vaultId, fails) ==
    LET record == getLatestBackup(db, vaultId)
        db1 == logEvent(db, "backup.downloaded", vaultId, record.row.id, NoMetadata)
    IN  IF fails = 1 THEN Caught(db, "db error", <<Call("getLatestBackup")>>)
        ELSE IF ~record.found
        THEN Answer(db, [status |-> 404, error |-> "No backups found"],
                    <<Call("getLatestBackup")>>)
        ELSE IF fails = 2
        THEN Caught(db, "db error", <<Call("getLatestBackup"), Call("logEvent")>>)
        ELSE Answer(db1,
                    [status |-> 200, id |-> record.row.id,
                     blob |-> BufferToBase64(record.row.blob),
                     createdAt |-> record.row.created_at, deviceId |-> record.row.device_id],
                    <<Call("getLatestBackup"), Call("logEvent")>>)

\* backups.get("/"): Math.min(parseInt(c.req.query("limit") || "10"), 100)
LimitOf(limitQuery) == MathMin(parseInt(OrString(limitQuery, <<"1", "0">>)), Number(100))

\* backups.get("/")
getBackups(db, vaultId, limitQuery, offsetQuery, fails) ==
    LET limit == LimitOf(limitQuery)
        offset == parseInt(OrString(offsetQuery, <<"0">>))
        result == listBackups(db, vaultId, limit, offset)
        call == [fn |-> "listBackups", vaultId |-> vaultId, limit |-> limit, offset |-> offset]
    IN  IF fails # 0 \/ result.threw THEN Caught(db, "db error", <<call>>)
        ELSE Answer(db,
                    [status |-> 200,
                     backups |-> [k \in DOMAIN result.backups |->
                                     [id |-> result.backups[k].id,
                                      createdAt |-> result.backups[k].created_at,
                                      sizeBytes |-> result.backups[k].size_bytes,
                                      deviceId |-> result.backups[k].device_id]],
                     total |-> result.total],
                    <<call>>)

-----------------------------------------------------------------------------
(* api/src/routes/admin.ts *)

Bearer == <<"B", "e", "a", "r", "e", "r">>

\* a middleware that does not compare the key
AdminAuthAnyKey(adminKey, authHeader) ==
    IF adminKey = NoEnv \/ adminKey = <<>>
    THEN [next |-> FALSE, response |-> [status |-> 503, error |-> "Admin API not configured"]]
    ELSE IF authHeader = Missing \/ authHeader = <<>>
    THEN [next |-> FALSE, response |-> [status |-> 401, error |-> "Unauthorized",
                                        message |-> "Missing Authorization header"]]
    ELSE IF Len(split(authHeader, " ")) # 2 \/ split(authHeader, " ")[1] # Bearer
    THEN [next |-> FALSE, response |-> [status |-> 401, error |-> "Unauthorized",
                                        message |-> "Invalid admin API key"]]
    ELSE [next |-> TRUE, response |-> NoResponse]

\* adminAuthMiddleware: whether it calls next(), and what it answers when it does not
adminAuthMiddleware(adminKey, authHeader) ==
    IF adminKey = NoEnv \/ adminKey = <<>>
    THEN [next |-> FALSE, response |-> [status |-> 503, error |-> "Admin API not configured"]]
    ELSE IF authHeader = Missing \/ authHeader = <<>>
    THEN [next |-> FALSE, response |-> [status |-> 401, error |-> "Unauthorized",
                                        message |-> "Missing Authorization header"]]
    ELSE LET parts == split(authHeader, " ")
         IN  IF Len(parts) # 2 \/ parts[1] # Bearer \/ parts[2] # adminKey
             THEN [next |-> FALSE, response |-> [status |-> 401, error |-> "Unauthorized",
                                                 message |-> "Invalid admin API key"]]
             ELSE [next |-> TRUE, response |-> NoResponse]

\* admin.get("/analytics")
adminAnalytics(db, fails) ==
    IF fails = 1 THEN Caught(db, "db error", <<Call("getAnalyticsSummary")>>)
    ELSE IF fails = 2
    THEN Caught(db, "db error",
                <<Call("getAnalyticsSummary"), Call("getEventCountsByType")>>)
    ELSE Answer(db,
                [status |-> 200, summary |-> getAnalyticsSummary(db),
                 eventCountsByType |-> getEventCountsByType(db, 7)],
                <<Call("getAnalyticsSummary"), Call("getEventCountsByType")>>)

\* admin.get("/events")
adminEvents(db, typeQuery, vaultIdQuery, limitQuery, offsetQuery, fails) ==
    LET limit == MathMin(parseInt(OrString(limitQuery, <<"5", "0">>)), Number(100))
        offset == parseInt(OrString(offsetQuery, <<"0">>))
        result == getEvents(db, typeQuery, vaultIdQuery, limit, offset)
    IN  IF fails # 0 \/ result.threw THEN Caught(db, "db error", <<Call("getEvents")>>)
        ELSE Answer(db, [status |-> 200, events |-> result.events, total |-> result.total],
                    <<Call("getEvents")>>)

-----------------------------------------------------------------------------
(* The backup routes as a state machine: the server answers one request     *)
(* after the other, each from any of the vaults.                            *)

MaxRequests == 3

VaultIds == {"v1", "v2"}

\* what uuidv4 can give for `bkp_` + 16 characters
BackupIds == {"bkp_1", "bkp_2"}

\* the number of "AAAA" groups that decode to one byte less than MAX_BACKUP_SIZE
FillAtLimit == (MAX_BACKUP_SIZE - 1) \div 3

BlobText(fill, text) == [type |-> "string", fill |-> fill, text |-> text]

\* request bodies of POST /backup: no JSON; null; {}; {"blob": ""}; {"blob": 7}; "Qh" (one
\* byte, no padding) with a device id; a blob of exactly MAX_BACKUP_SIZE bytes; a
\* blob of one byte more
Bodies ==
    {[json |-> FALSE],
     JsonNull,
     [json |-> TRUE, blob |-> [type |-> "undefined"], deviceId |-> Undefined],
     [json |-> TRUE, blob |-> BlobText(0, <<>>), deviceId |-> Undefined],
     [json |-> TRUE, blob |-> [type |-> "number", value |-> 7], deviceId |-> Undefined],
     [json |-> TRUE, blob |-> BlobText(0, <<16, 33>>), deviceId |-> "d1"],
     [json |-> TRUE, blob |-> BlobText(FillAtLimit, base64Encode(<<65>>)), deviceId |-> Undefined],
     [json |-> TRUE, blob |-> BlobText(FillAtLimit, base64Encode(<<65, 66>>)),
      deviceId |-> Undefined]}

\* values of the limit query parameter: absent, "", "1", "0", "-3", "abc", "200"
LimitQueries ==
    {Missing, <<>>, <<"1">>, <<"0">>, <<"-", "3">>, <<"a", "b", "c">>, <<"2", "0", "0">>}

\* values of the offset query parameter: absent, "1"
OffsetQueries == {Missing, <<"1">>}

ApiInit ==
    /\ aPc = "serving"
    /\ aServed = 0
    /\ aAdminKey = NoEnv
    /\ aClock = 0
    /\ aVaults = {}
    /\ aBackups = <<>>
    /\ aEvents = <<>>
    /\ aRequest = NoRequest
    /\ aQueries = <<>>
    /\ aResponse = NoResponse
    /\ aCaught = "none"
    /\ aPosted = <<>>
    /\ CryptoIdle /\ EnvIdle /\ ScanIdle /\ RestoreIdle /\ SealIdle /\ ClientIdle

\* the server has answered: the database, the response and the calls are those of
\* the handler
Answered(request, answer) ==
    /\ aServed' = aServed + 1
    /\ aRequest' = request
    /\ aResponse' = answer.response
    /\ aQueries' = answer.queries
    /\ aCaught' = answer.caught
    /\ aPosted' = IF request.route = "POST /backup" /\ answer.response.status = 201
                  THEN Append(aPosted, [vaultId |-> request.vaultId, blob |-> request.body.blob,
                                        id |-> answer.response.id])
                  ELSE aPosted
    /\ aClock' = answer.db.clock
    /\ aVaults' = answer.db.vaults
    /\ aBackups' = answer.db.backups
    /\ aEvents' = answer.db.events
    /\ UNCHANGED <<aPc, aAdminKey>>
    /\ UNCHANGED <<cryptoVars, envVars, scanVars, restoreVars, sealVars, clientVars>>

\* a call can throw only when the handler gets to it
Thrown(answer, fails) == fails <= Len(answer.queries)

\* the id of a request that is answered before an id is made
FirstBackupId == CHOOSE id \in BackupIds : TRUE

PostBackup ==
    /\ aPc = "serving"
    /\ aServed < MaxRequests
    /\ \E vaultId \in VaultIds, body \in Bodies, backupId \in BackupIds, fails \in 0..5 :
        LET answer == postBackup(Database, vaultId, body, backupId, fails)
        IN  /\ Thrown(answer, fails)
            /\ answer.queries = <<>> => backupId = FirstBackupId
            /\ Answered([route |-> "POST /backup", vaultId |-> vaultId, body |-> body],
                        answer)

GetBackupLatest ==
    /\ aPc = "serving"
    /\ aServed < MaxRequests
    /\ \E vaultId \in VaultIds, fails \in 0..2 :
        LET answer == getBackupLatest(Database, vaultId, fails)
        IN  /\ Thrown(answer, fails)
            /\ Answered([route |-> "GET /backup/latest", vaultId |-> vaultId], answer)

GetBackups ==
    /\ aPc = "serving"
    /\ aServed < MaxRequests
    /\ \E vaultId \in VaultIds, limitQuery \in LimitQueries, offsetQuery \in OffsetQueries,
          fails \in 0..1 :
        Answered([route |-> "GET /backups", vaultId |-> vaultId, limit |-> limitQuery,
                  offset |-> offsetQuery],
                 getBackups(Database, vaultId, limitQuery, offsetQuery, fails))

ApiNext ==
    \/ PostBackup
    \/ GetBackupLatest
    \/ GetBackups

SpecApi == ApiInit /\ [][ApiNext]_vars

-----------------------------------------------------------------------------
(* Claims about the backup routes (checked under SpecApi)                   *)

LatestAnswered == aRequest.route = "GET /backup/latest"

\* the rows of a vault in table backups, and the 201 requests of a vault
RowsOf(vaultId) == {i \in DOMAIN aBackups : aBackups[i].vault_id = vaultId}
PostedTo(vaultId) == {k \in DOMAIN aPosted : aPosted[k].vaultId = vaultId}

\* every backup of the vault was stored by a request that was answered 201
AllPostsSucceeded(vaultId) ==
    \A i \in RowsOf(vaultId) : \E k \in PostedTo(vaultId) : aPosted[k].id = aBackups[i].id

Greatest(S) == CHOOSE i \in S : \A j \in S : j <= i

ListAnswered == aRequest.route = "GET /backups"

\* C19 as stated: whatever the limit query parameter is, the limit that listBackups
\* is called with is a number between 0 and 100, and it is 10 when the parameter is
\* absent; the total of a 200 answer is the number of backups of the vault.
C19_LimitBetween0And100 ==
    ListAnswered =>
        /\ \A k \in DOMAIN aQueries :
            /\ ~aQueries[k].limit.nan
            /\ aQueries[k].limit.value >= 0
            /\ aQueries[k].limit.value <= 100
            /\ aRequest.limit = Missing => aQueries[k].limit = Number(10)
        /\ aResponse.status = 200 =>
            aResponse.total = Cardinality(RowsOf(aRequest.vaultId))

\* the server answers a POST /backup request in this step
PostStep == aServed' = aServed + 1 /\ aRequest'.route = "POST /backup"

\* the step adds no row to (and changes no row of) the three tables
TablesUnchanged == aVaults' = aVaults /\ aBackups' = aBackups /\ aEvents' = aEvents

\* the JSON body has no blob, or an empty one
NoBlob(body) ==
    IF ~body.json THEN FALSE
    ELSE IF body = JsonNull THEN TRUE
    ELSE \/ body.blob.type = "undefined"
         \/ body.blob.type = "string" /\ body.blob.fill = 0 /\ body.blob.text = <<>>

\* the number of bytes the blob of the body decodes to (0 when it has no text blob)
DecodedLength(body) ==
    IF ~body.json \/ body = JsonNull THEN 0
    ELSE IF body.blob.type # "string" THEN 0
    ELSE BufferLength(BufferFromBase64(body.blob))

\* C21 as stated: a POST /backup whose body has no blob or an empty blob is answered
\* 400, one whose blob decodes to more than 10 * 1024 * 1024 bytes is answered 413,
\* in both cases no vault, backup or event row is created, and a blob of exactly
\* 10 MiB is not rejected by validation.
C21_ValidationAnswers ==
    [][PostStep =>
        LET body == aRequest'.body
        IN  /\ NoBlob(body) => aResponse'.status = 400 /\ TablesUnchanged
            /\ DecodedLength(body) > 10 * 1024 * 1024 =>
                    aResponse'.status = 413 /\ TablesUnchanged
            /\ DecodedLength(body) = 10 * 1024 * 1024 =>
                    aResponse'.status \notin {400, 413}]_vars

\* C26 as stated: a POST /backup answered 201 has stored exactly one new backup
\* row, for the vault of the request, and logged exactly one backup.created event;
\* a POST /backup answered with any other status leaves the tables vaults and
\* backups as they were, also when a step after the insert fails.
C26_AllOrNothing ==
    [][PostStep =>
        /\ aResponse'.status = 201 =>
            /\ Len(aBackups') = Len(aBackups) + 1
            /\ SubArray(aBackups', 1, Len(aBackups)) = aBackups
            /\ aBackups'[Len(aBackups')].vault_id = aRequest'.vaultId
            /\ Len(aEvents') = Len(aEvents) + 1
            /\ SubArray(aEvents', 1, Len(aEvents)) = aEvents
            /\ aEvents'[Len(aEvents')].event_type = "backup.created"
        /\ aResponse'.status # 201 =>
            /\ aVaults' = aVaults
            /\ aBackups' = aBackups]_vars

\* C27: whatever requests the vaults have made before, a GET /backup/latest that
\* is answered 200 returns a backup stored under the vault of the request, and a
\* GET /backups that is answered 200 lists only backups stored under the vault of
\* the request, with the number of that vault's backups as total; no backup id is
\* stored under two vaults.
C27_VaultIsolation ==
    /\ \A i, j \in DOMAIN aBackups : aBackups[i].id = aBackups[j].id => i = j
    /\ (LatestAnswered /\ aResponse.status = 200) =>
        \E i \in RowsOf(aRequest.vaultId) :
            /\ aBackups[i].id = aResponse.id
            /\ aBackups[i].blob = BufferFromBase64(aResponse.blob)
    /\ ListAnswered =>
        \A k \in DOMAIN aQueries : aQueries[k].vaultId = aRequest.vaultId
    /\ (ListAnswered /\ aResponse.status = 200) =>
        /\ aResponse.total = Cardinality(RowsOf(aRequest.vaultId))
        /\ \A k \in DOMAIN aResponse.backups :
            \E i \in RowsOf(aRequest.vaultId) :
                /\ aBackups[i].id = aResponse.backups[k].id
                /\ aBackups[i].created_at = aResponse.backups[k].createdAt

\* C27 witness: two vaults have a backup each, and the vault whose backup is the
\* older one has listed its backups and got its own one only.
C27_Witness ==
    /\ ListAnswered
    /\ aResponse.status = 200
    /\ Len(aResponse.backups) = 1
    /\ aResponse.total = 1
    /\ \E i \in DOMAIN aBackups :
        /\ aBackups[i].vault_id # aRequest.vaultId
        /\ aBackups[i].created_at > aResponse.backups[1].createdAt

-----------------------------------------------------------------------------
(* The admin routes as a state machine: the server runs with some            *)
(* ADMIN_API_KEY in its environment over a database that earlier backup     *)
(* requests have filled, and answers one admin request after the other.     *)

\* process.env.ADMIN_API_KEY: not set, "", "k1", "k 1"
AdminKeys == {NoEnv, <<>>, <<"k", "1">>, <<"k", " ", "1">>}

\* the Authorization header: absent, "", "Bearer k1", "Bearer k2", "bearer k1",
\* "Bearer  k1", "Bearer", "k1", "Basic k1", "Bearer k 1", "Bearer "
AuthHeaders ==
    {Missing, <<>>,
     Bearer \o <<" ", "k", "1">>,
     Bearer \o <<" ", "k", "2">>,
     <<"b", "e", "a", "r", "e", "r", " ", "k", "1">>,
     Bearer \o <<" ", " ", "k", "1">>,
     Bearer,
     <<"k", "1">>,
     <<"B", "a", "s", "i", "c", " ", "k", "1">>,
     Bearer \o <<" ", "k", " ", "1">>,
     Bearer \o <<" ">>}

\* the database when nothing was stored; after one POST /backup for v1; after a
\* second one for v2 and a GET /backup/latest for v1
SeededDatabases ==
    LET small == [json |-> TRUE, blob |-> BlobText(0, <<16, 33>>), deviceId |-> "d1"]
        large == [json |-> TRUE, blob |-> BlobText(FillAtLimit, base64Encode(<<65>>)),
                  deviceId |-> Undefined]
        one == postBackup(EmptyDatabase, "v1", small, "bkp_1", 0).db
        two == postBackup(one, "v2", large, "bkp_2", 0).db
    IN  {EmptyDatabase, one, getBackupLatest(two, "v1", 0).db}

AdminInit ==
    /\ aPc = "serving"
    /\ aServed = 0
    /\ aAdminKey \in AdminKeys
    /\ \E db \in SeededDatabases :
        /\ aClock = db.clock
        /\ aVaults = db.vaults
        /\ aBackups = db.backups
        /\ aEvents = db.events
    /\ aRequest = NoRequest
    /\ aQueries = <<>>
    /\ aResponse = NoResponse
    /\ aCaught = "none"
    /\ aPosted = <<>>
    /\ CryptoIdle /\ EnvIdle /\ ScanIdle /\ RestoreIdle /\ SealIdle /\ ClientIdle

\* admin.use("/*", adminAuthMiddleware): the handler runs when the middleware calls
\* next(), otherwise the response is the middleware's
ThroughAdminAuth(authHeader, answer) ==
    LET auth == adminAuthMiddleware(aAdminKey, authHeader)
    IN  IF auth.next THEN answer ELSE Answer(Database, auth.response, <<>>)

AdminAnalytics ==
    /\ aPc = "serving"
    /\ aServed < MaxRequests
    /\ \E authHeader \in AuthHeaders, fails \in 0..2 :
        LET answer == ThroughAdminAuth(authHeader, adminAnalytics(Database, fails))
        IN  /\ Thrown(answer, fails)
            /\ Answered([route |-> "GET /admin/analytics", authorization |-> authHeader],
                        answer)

AdminEvents ==
    /\ aPc = "serving"
    /\ aServed < MaxRequests
    /\ \E authHeader \in AuthHeaders, typeQuery \in {Undefined, "backup.created"},
          vaultIdQuery \in {Undefined, "v1"},
          limitQuery \in {Missing, <<"1">>, <<"-", "3">>}, fails \in 0..1 :
        LET answer == ThroughAdminAuth(authHeader,
                          adminEvents(Database, typeQuery, vaultIdQuery, limitQuery,
                                      Missing, fails))
        IN  /\ Thrown(answer, fails)
            /\ Answered([route |-> "GET /admin/events", authorization |-> authHeader,
                         type |-> typeQuery, vaultId |-> vaultIdQuery,
                         limit |-> limitQuery, offset |-> Missing],
                        answer)

AdminNext ==
    \/ AdminAnalytics
    \/ AdminEvents

SpecAdmin == AdminInit /\ [][AdminNext]_vars

-----------------------------------------------------------------------------
(* Claims about the admin routes (checked under SpecAdmin)                  *)

AdminAnswered == aRequest.route \in {"GET /admin/analytics", "GET /admin/events"}

AdminKeySet == aAdminKey # NoEnv /\ aAdminKey # <<>>

\* the Authorization header is 'Bearer <ADMIN_API_KEY>'
ExactHeader == aRequest.authorization = Bearer \o <<" ">> \o aAdminKey

\* the handler behind the middleware ran: it called a db function
HandlerRan == aQueries # <<>>

\* C20: an admin handler runs only when ADMIN_API_KEY is set and the Authorization
\* header is exactly 'Bearer <ADMIN_API_KEY>'; when the key is not set the answer
\* is 503 whatever the header, when it is set and the header is absent or is not
\* exactly that the answer is 401, and in both cases no analytics or events query
\* runs.
C20_AdminGate ==
    AdminAnswered =>
        /\ HandlerRan => (AdminKeySet /\ ExactHeader)
        /\ aResponse.status \notin {401, 503} => (AdminKeySet /\ ExactHeader)
        /\ ~AdminKeySet => (aResponse.status = 503 /\ ~HandlerRan)
        /\ (AdminKeySet /\ ~ExactHeader) => (aResponse.status = 401 /\ ~HandlerRan)

\* the key is set, the header is exact, and the events handler answered 200 with
\* an event of the database
C20_Witness ==
    /\ aRequest.route = "GET /admin/events"
    /\ AdminKeySet
    /\ ExactHeader
    /\ aResponse.status = 200
    /\ aResponse.events # <<>>

-----------------------------------------------------------------------------
(* api/src/db/client.ts: the pool.  The calls run on one thread and give way  *)
(* to each other at their awaits only, so a call is one step up to its await  *)
(* and one step from there.  A pool is known by its number in dPools.         *)

MaxPools == 2

\* new pg.Pool(...): nothing connected yet, end() not called
NewPool == [connect |-> "pending", end |-> "open"]

\* initDb up to `await pool.connect()`: with a pool it returns it at once, without
\* one it makes one, assigns it to pool and waits for the connection test
initDb ==
    /\ IF dPool # NoPool
       THEN UNCHANGED <<dPool, dPools, dCalls>>
       ELSE /\ Len(dPools) < MaxPools
            /\ dPools' = Append(dPools, NewPool)
            /\ dPool' = Len(dPools) + 1
            /\ dCalls' = Append(dCalls, [fn |-> "initDb", pool |-> Len(dPools) + 1])
    /\ UNCHANGED dGot
    /\ UNCHANGED <<cryptoVars, envVars, scanVars, restoreVars, sealVars, apiVars>>

\* the calls that wait, without the one at position k
Settled(k) == SubArray(dCalls, 1, k - 1) \o SubArray(dCalls, k + 1, Len(dCalls))

\* initDb from its await: pool.connect() resolves, the client is released and the
\* pool returned, or it rejects and initDb throws; pool is not assigned again
initDbResumes ==
    /\ \E k \in DOMAIN dCalls, connected \in BOOLEAN :
        /\ dCalls[k].fn = "initDb"
        /\ dPools' = [dPools EXCEPT ![dCalls[k].pool].connect =
                            IF connected THEN "ok" ELSE "failed"]
        /\ dCalls' = Settled(k)
    /\ UNCHANGED <<dPool, dGot>>
    /\ UNCHANGED <<cryptoVars, envVars, scanVars, restoreVars, sealVars, apiVars>>

NotInitialized == "Database not initialized. Call initDb() first."

\* getDb: throws without a pool, returns pool otherwise
getDb ==
    /\ dGot' = IF dPool = NoPool
               THEN [called |-> TRUE, threw |-> TRUE, message |-> NotInitialized]
               ELSE [called |-> TRUE, threw |-> FALSE, pool |-> dPool,
                     connect |-> dPools[dPool].connect, end |-> dPools[dPool].end]
    /\ UNCHANGED <<dPool, dPools, dCalls>>
    /\ UNCHANGED <<cryptoVars, envVars, scanVars, restoreVars, sealVars, apiVars>>

\* closeDb up to `await pool.end()`: without a pool it returns; with one it calls
\* end(), which rejects at once when end() was called on the pool before
closeDb ==
    /\ dPool # NoPool
    /\ IF dPools[dPool].end = "open"
       THEN /\ dPools' = [dPools EXCEPT ![dPool].end = "ending"]
            /\ dCalls' = Append(dCalls, [fn |-> "closeDb", pool |-> dPool])
       ELSE UNCHANGED <<dPools, dCalls>>
    /\ UNCHANGED <<dPool, dGot>>
    /\ UNCHANGED <<cryptoVars, envVars, scanVars, restoreVars, sealVars, apiVars>>

\* closeDb from its await: pool.end() has resolved, pool = null
closeDbResumes ==
    /\ \E k \in DOMAIN dCalls :
        /\ dCalls[k].fn = "closeDb"
        /\ dPools' = [dPools EXCEPT ![dCalls[k].pool].end = "ended"]
        /\ dCalls' = Settled(k)
    /\ dPool' = NoPool
    /\ UNCHANGED dGot
    /\ UNCHANGED <<cryptoVars, envVars, scanVars, restoreVars, sealVars, apiVars>>

ClientInit ==
    /\ CryptoIdle /\ EnvIdle /\ ScanIdle /\ RestoreIdle /\ SealIdle /\ ApiIdle

ClientNext ==
    \/ initDb
    \/ initDbResumes
    \/ getDb
    \/ closeDb
    \/ closeDbResumes

SpecClient == ClientInit /\ [][ClientNext]_vars

-----------------------------------------------------------------------------
(* Claims about the pool (checked under SpecClient)                          *)

\* C28 as stated: getDb throws 'Database not initialized' when no initDb has
\* succeeded yet, after closeDb, and after an initDb whose connection test failed,
\* and returns the pool otherwise; at most one pool that was not ended exists at a
\* time, and the pool that initDb makes after closeDb is a new one.
C28_PoolLifecycle ==
    /\ dGot.called =>
        /\ dGot.threw => dGot.message = NotInitialized
        /\ ~dGot.threw => dGot.connect # "failed" /\ dGot.end # "ended"
    /\ Cardinality({p \in DOMAIN dPools : dPools[p].end # "ended"}) <= 1
    /\ dPool # NoPool => dPools[dPool].end # "ended"

=============================================================================
